---- MODULE Spec2Model ----
(***************************************************************************)
(* Model of the streaming voice pipeline of Zylin:                         *)
(*   - the session registry of StreamingPipeline                           *)
(*     (services/orchestrator/streaming_pipeline.py),                      *)
(*   - the /media-stream websocket handler with its pipeline and sender    *)
(*     tasks (main.py),                                                    *)
(*   - AudioBuffer and AudioCodec (services/utils/audio_codec.py).         *)
(*                                                                         *)
(* The specifications share the variables:                                 *)
(*   Spec     one transport connection: handler, pipeline tasks, senders   *)
(*   FairSpec Spec under the scheduling of the event loop                  *)
(*   SpecReg  the registry driven directly through create/get/close        *)
(*   SpecBuf  one AudioBuffer driven through add_chunk/clear               *)
(*   SpecCodec the static methods of AudioCodec called on bounded inputs   *)
(*   SpecActions StreamingPipeline._handle_actions called on the responses  *)
(*            that the dialogue engine can give                            *)
(*   SpecOrch the ConversationOrchestrator                                 *)
(*            (services/orchestrator/session_manager.py)                   *)
(***************************************************************************)
EXTENDS Naturals, Integers, Sequences, FiniteSets, TLC

VARIABLES
  \* ---- StreamingPipeline (registry) ----
  sessions,          \* self.sessions: session_id -> reference of a StreamingSession
  heap,              \* the StreamingSession objects ever constructed, by reference
  trace,             \* side effects of close_session in program order: log / del
  err,               \* exception raised by the last registry call, or "none"
  \* ---- registry driven directly (SpecReg) ----
  call,              \* the last registry call: [n, op, id, present, ret]
  lastCreated,       \* session_id -> reference returned by the latest create_session
  open,              \* ids created and not closed since
  \* ---- websocket_media_stream (Spec) ----
  hpc,               \* where the handler coroutine is suspended
  session_id,        \* local session_id (None = 0)
  stream_sid,        \* local stream_sid (None = 0)
  pipeline_task,     \* local pipeline_task: index into ptask (None = 0)
  sender_task,       \* local sender_task: index into stask (None = 0)
  audio_input_queue, \* asyncio.Queue of decoded frames, None = 0
  audio_queue,       \* asyncio.Queue of outgoing messages, None = NoneMsg
  ptask,             \* every task created from process_call_stream
  stask,             \* every task created from send_audio_to_twilio
  sent,              \* messages written with websocket.send_json, in order
  enq,               \* audio messages put on audio_queue so far, in order
  cause,             \* what ended the handler: none / stop / disconnect / error
  dropped,           \* frames received before the first start event
  nstart, nmedia,    \* counters of start events / media events
  nturn, ninterim,   \* counters of final / interim transcript events
  \* ---- AudioBuffer (SpecBuf) ----
  max_duration_ms,   \* AudioBuffer.max_duration_ms
  buffer,            \* AudioBuffer.buffer
  fed,               \* every byte given to add_chunk since the last clear, in order
  nbytes, nops,      \* bytes produced so far / operations so far
  \* ---- AudioCodec (SpecCodec) ----
  codec,             \* the last call of AudioCodec: arguments, result, exception
  \* ---- StreamingPipeline._handle_actions (SpecActions) ----
  act,               \* the last call of _handle_actions: arguments, calls made
  \* ---- ConversationOrchestrator (SpecOrch) ----
  orch,              \* self.sessions: the ConversationSession of id k at index k
  generate_audio,    \* self.generate_audio
  coro,              \* every call of process_text_turn / process_audio_turn
  conv               \* the call of run_conversation

regVars  == <<sessions, heap, trace, err>>
apiVars  == <<call, lastCreated, open>>
hVars    == <<hpc, session_id, stream_sid, pipeline_task, sender_task, cause>>
cntVars  == <<dropped, nstart, nmedia, nturn, ninterim>>
connVars == <<hVars, audio_input_queue, audio_queue, ptask, stask, sent, enq,
              cntVars>>
bufVars  == <<max_duration_ms, buffer, fed, nbytes, nops>>
orchVars == <<orch, generate_audio, coro, conv>>
turnVars == <<act, orchVars>>
notOrch  == <<regVars, apiVars, connVars, bufVars, codec, act>>
utilVars == <<bufVars, codec, turnVars>>
vars     == <<regVars, apiVars, connVars, utilVars>>

(***************************************************************************)
(* Bounds of the model                                                     *)
(***************************************************************************)
NumIds      == 3    \* session ids used when the registry is driven directly
MaxCalls    == 6    \* registry calls in one run of SpecReg
MaxInputs   == 6    \* inputs of a connection: media events, transcripts, start events (three times each)
NumSids     == 2    \* stream ids carried by the start events
MaxDurMs    == 2    \* largest max_duration_ms of the buffers constructed
MaxOps      == 5    \* add_chunk / clear calls in one run of SpecBuf
ChunkSlack  == 2    \* longest chunk = largest max_bytes + ChunkSlack
DurSlack    == 1    \* stage times lie DurSlack ms on either side of the target
MaxPcmLen   == 4    \* longest PCM buffer given to encode / resample, in bytes
MaxOrchSessions == 2 \* sessions made by one ConversationOrchestrator
MaxTurnCalls == 2   \* calls of process_text_turn / process_audio_turn
MaxFiles    == 2    \* longest audio_files given to run_conversation

None == 0

(***************************************************************************)
(* StreamingSession and the registry                                       *)
(***************************************************************************)
StreamingSession(id, ssid) ==
  [ session_id           |-> id,
    stream_sid           |-> ssid,
    is_active            |-> TRUE,
    conversation_history |-> << >>,
    latency_metrics      |-> << >> ]

\* Variant of add_message with one slip: insert(0, ...) for append(...)
add_message_front(H, o, role, content) ==
  [H EXCEPT ![o].conversation_history =
      << [role |-> role, content |-> content] >> \o @]

add_message(H, o, role, content) ==
  [H EXCEPT ![o].conversation_history =
      Append(@, [role |-> role, content |-> content])]

add_latency_metric(H, o, metric_name, duration_ms) ==
  [H EXCEPT ![o].latency_metrics =
      Append(@, [metric |-> metric_name, duration_ms |-> duration_ms])]

\* get_conversation_for_llm: role and content of every message of the
\* history (the timestamps, left out here, are not modelled)
get_conversation_for_llm(H, o) ==
  [k \in 1..Len(H[o].conversation_history) |->
     [role    |-> H[o].conversation_history[k].role,
      content |-> H[o].conversation_history[k].content]]

get_session(id) == IF id \in DOMAIN sessions THEN sessions[id] ELSE None

Put(S, id, o)  == [i \in (DOMAIN S) \cup {id} |-> IF i = id THEN o ELSE S[i]]
Remove(S, id)  == [i \in (DOMAIN S) \ {id} |-> S[i]]

LogEv(o) == [ev |-> "log", o |-> o]
DelEv(o) == [ev |-> "del", o |-> o]

\* The latest object constructed for id, None when there is none.
ObjOf(H, id) ==
  LET C == {o \in 1..Len(H) : H[o].session_id = id}
  IN  IF C = {} THEN None ELSE CHOOSE o \in C : \A p \in C : p <= o

\* create_session: constructs the session and stores it under id; there is
\* no membership test, an entry already under id is overwritten.
create_session(S, H, id, ssid) ==
  [ sessions |-> Put(S, id, Len(H) + 1),
    heap     |-> Append(H, StreamingSession(id, ssid)),
    ret      |-> Len(H) + 1,
    err      |-> "none" ]

\* Variants of close_session, each with one slip.
close_session_noguard(S, H, T, id) ==      \* the membership test dropped
  [ sessions |-> Remove(S, id),
    heap     |-> IF ObjOf(H, id) = None THEN H
                 ELSE [H EXCEPT ![ObjOf(H, id)].is_active = FALSE],
    trace    |-> T \o << LogEv(ObjOf(H, id)), DelEv(ObjOf(H, id)) >>,
    err      |-> IF id \in DOMAIN S THEN "none" ELSE "KeyError" ]

close_session_clears(S, H, T, id) ==       \* the map emptied instead of one key
  IF id \in DOMAIN S
  THEN [ sessions |-> << >>,
         heap     |-> [H EXCEPT ![S[id]].is_active = FALSE],
         trace    |-> T \o << LogEv(S[id]), DelEv(S[id]) >>,
         err      |-> "none" ]
  ELSE [ sessions |-> S, heap |-> H, trace |-> T, err |-> "none" ]

close_session_stays_active(S, H, T, id) == \* is_active left True
  IF id \in DOMAIN S
  THEN [ sessions |-> Remove(S, id),
         heap     |-> H,
         trace    |-> T \o << LogEv(S[id]), DelEv(S[id]) >>,
         err      |-> "none" ]
  ELSE [ sessions |-> S, heap |-> H, trace |-> T, err |-> "none" ]

\* close_session: only when id is in the map: is_active := False,
\* _log_call(session) (which swallows its own errors), del sessions[id].
close_session(S, H, T, id) ==
  IF id \in DOMAIN S
  THEN [ sessions |-> Remove(S, id),
         heap     |-> [H EXCEPT ![S[id]].is_active = FALSE],
         trace    |-> T \o << LogEv(S[id]), DelEv(S[id]) >>,
         err      |-> "none" ]
  ELSE [ sessions |-> S, heap |-> H, trace |-> T, err |-> "none" ]

\* The registry after close_session(id)
Closed(id) ==
  LET r == close_session(sessions, heap, trace, id)
  IN  /\ sessions' = r.sessions
      /\ heap' = r.heap
      /\ trace' = r.trace
      /\ err' = r.err

(***************************************************************************)
(* SpecReg: the registry driven directly, as the tests drive it            *)
(***************************************************************************)
Ids == 1..NumIds

NoCall == [n |-> 0, op |-> "none", id |-> None, present |-> FALSE, ret |-> None]

RegInit ==
  /\ sessions = << >>
  /\ heap = << >>
  /\ trace = << >>
  /\ err = "none"

ApiInit ==
  /\ call = NoCall
  /\ lastCreated = [i \in Ids |-> None]
  /\ open = {}

RegCreate(id) ==
  /\ call.n < MaxCalls
  /\ UNCHANGED <<connVars, utilVars>>
  /\ LET r == create_session(sessions, heap, id, None)
     IN  /\ sessions' = r.sessions
         /\ heap' = r.heap
         /\ err' = r.err
         /\ call' = [n |-> call.n + 1, op |-> "create", id |-> id,
                     present |-> (id \in DOMAIN sessions), ret |-> r.ret]
         /\ lastCreated' = [lastCreated EXCEPT ![id] = r.ret]
  /\ open' = open \cup {id}
  /\ UNCHANGED trace

RegGet(id) ==
  /\ call.n < MaxCalls
  /\ UNCHANGED <<connVars, utilVars>>
  /\ call' = [n |-> call.n + 1, op |-> "get", id |-> id,
              present |-> (id \in DOMAIN sessions), ret |-> get_session(id)]
  /\ err' = "none"
  /\ UNCHANGED <<sessions, heap, trace, lastCreated, open>>

RegClose(id) ==
  /\ call.n < MaxCalls
  /\ UNCHANGED <<connVars, utilVars>>
  /\ Closed(id)
  /\ call' = [n |-> call.n + 1, op |-> "close", id |-> id,
              present |-> (id \in DOMAIN sessions), ret |-> None]
  /\ open' = open \ {id}
  /\ UNCHANGED lastCreated

\* session.add_message on a session obtained from the registry
RegAddMessage(id) ==
  /\ call.n < MaxCalls
  /\ UNCHANGED <<connVars, utilVars>>
  /\ id \in DOMAIN sessions
  /\ Len(heap[sessions[id]].conversation_history) < 1
  /\ heap' = add_message(heap, sessions[id], "user", "t")
  /\ call' = [n |-> call.n + 1, op |-> "add_message", id |-> id,
              present |-> TRUE, ret |-> None]
  /\ err' = "none"
  /\ UNCHANGED <<sessions, trace, lastCreated, open>>

(***************************************************************************)
(* Spec: one transport connection (websocket_media_stream)                 *)
(***************************************************************************)
\* number of entries of the conversation history of the session made for id
Turns(id) == Len(heap[ObjOf(heap, id)].conversation_history)

\* a message of audio_queue: {"event": "media", ...}; n tells the messages of
\* one session apart: the length of its history when the message was made.
\* streamSid is the key the sender adds; None while the key is absent.
NoneMsg == [kind |-> "None", sid |-> None, n |-> 0, streamSid |-> None]
Msg(kind, sid, n) == [kind |-> kind, sid |-> sid, n |-> n, streamSid |-> None]

\* ExtractedData: the fields of the pydantic model, None for a field that
\* is not set
ExtractedData(name, phone, date, time) ==
  [ name |-> name, phone |-> phone, date |-> date, time |-> time,
    notes |-> None, issue_summary |-> None ]

\* ConversationResponse: the fields of the object process_message returns
ConversationResponse(intent, message, booking_complete, needs_escalation) ==
  [ intent           |-> intent,
    message          |-> message,
    extracted_data   |-> ExtractedData(None, None, None, None),
    booking_complete |-> booking_complete,
    needs_escalation |-> needs_escalation ]

\* no response received yet
NoResponse == ConversationResponse("none", "", FALSE, FALSE)

\* the response built in the except branch of process_message
Fallback == ConversationResponse("other", "apology", FALSE, FALSE)

\* the responses built from the answer of the engine
Directives ==
  { ConversationResponse("booking", "text", FALSE, FALSE),
    ConversationResponse("booking", "text", TRUE, FALSE) }

\* process_message: the response built from the answer of the engine, the
\* fallback response when anything in the call raises
process_message(engine_ok, d) == IF engine_ok THEN d ELSE Fallback

\* the system message that process_message puts first
SystemMessage == [role |-> "system", content |-> "system_prompt"]

\* process_message: the list given to the engine: the system message, the
\* history passed in, then the current user message
messages(user_message, conversation_history) ==
  << SystemMessage >> \o conversation_history
     \o << [role |-> "user", content |-> user_message] >>

\* getattr: an attribute that the object does not have raises AttributeError
HasAttr(r, a) == a \in DOMAIN r

\* exc: the exception that "except Exception" of process_call_stream caught;
\* nfinal: the final transcript events the loop of the task has taken;
\* transcript, messages: the transcript of the last turn and the list that
\* process_message gave to the engine for it
NewPTask(sid) == [sid |-> sid, pc |-> "new", cancel |-> FALSE, fin |-> FALSE,
                  eos |-> FALSE, response |-> NoResponse, exc |-> "none",
                  nfinal |-> 0, transcript |-> None, messages |-> << >>]
NewSTask == [pc |-> "run", cancel |-> FALSE, failed |-> FALSE, msg |-> NoneMsg]

\* process_call_stream suspended in the recogniser / in the dialogue engine
PRunning == {"listen", "llm"}

\* inputs taken so far; a start event, which brings a session, a sender task
\* and a pipeline task, counts three times
Inputs == nstart + nstart + nstart + nmedia + nturn + ninterim

StreamSids == 1..NumSids

\* StreamingPipeline.max_latency_target_ms, the default of the constructor
max_latency_target_ms == 3000

\* the time a stage of a turn takes, in ms: within the target and beyond it
\* (the time of a turn is at least the time of each of its stages)
Durations == {max_latency_target_ms - DurSlack, max_latency_target_ms + DurSlack}

ConnInit ==
  /\ hpc = "recv"
  /\ session_id = None
  /\ stream_sid = None
  /\ pipeline_task = None
  /\ sender_task = None
  /\ cause = "none"
  /\ audio_input_queue = << >>
  /\ audio_queue = << >>
  /\ ptask = << >>
  /\ stask = << >>
  /\ sent = << >>
  /\ enq = << >>
  /\ dropped = {}
  /\ nstart = 0
  /\ nmedia = 0
  /\ nturn = 0
  /\ ninterim = 0

\* A task made by create_task takes its first step as soon as its creator
\* suspends: before any later timer or I/O completion resumes the creator.
AllStarted == \A t \in DOMAIN ptask : ptask[t].pc # "new"

\* Variants of task.done() and of task.cancel(), each with one slip.
DoneAlways(P, t) == TRUE                 \* the task taken for finished
CancelNever(P, t) == P                  \* the request never made

\* task.done()
Done(P, t) == P[t].pc = "done"

\* task.cancel(): a request, delivered when the task next runs; no effect on
\* a task that is done
CancelP(P, t) ==
  IF t # None /\ ~Done(P, t) THEN [P EXCEPT ![t].cancel = TRUE] ELSE P
CancelS(Q, t) ==
  IF t # None /\ ~Done(Q, t) THEN [Q EXCEPT ![t].cancel = TRUE] ELSE Q

\* the finally block of websocket_media_stream, reached because of why
Cleanup(aq, why) ==
  /\ IF session_id # None
     THEN Closed(session_id)
     ELSE UNCHANGED regVars
  /\ stask' = CancelS(stask, sender_task)
  /\ ptask' = CancelP(ptask, pipeline_task)
  /\ audio_queue' = aq
  /\ hpc' = "done"
  /\ cause' = why
  /\ UNCHANGED <<session_id, stream_sid, pipeline_task, sender_task>>

\* event == "start", up to the first suspension inside send_greeting:
\* stream_sid, uuid4, create_session, create_task(send_audio_to_twilio),
\* greeting recorded
HStart(ssid) ==
  /\ hpc = "recv"
  /\ ssid <= nstart + 1          \* stream ids are numbered in order of use
  /\ UNCHANGED <<apiVars, utilVars>>
  /\ Inputs + 2 < MaxInputs
  /\ nstart' = nstart + 1
  /\ stream_sid' = ssid
  /\ session_id' = nstart + 1
  /\ LET r == create_session(sessions, heap, nstart + 1, ssid)
     IN  /\ sessions' = r.sessions
         /\ heap' = add_message(r.heap, r.ret, "assistant", "greeting")
         /\ err' = r.err
  /\ stask' = Append(stask, NewSTask)
  /\ sender_task' = Len(stask) + 1
  /\ hpc' = "greeting"
  /\ UNCHANGED <<trace, pipeline_task, cause, audio_input_queue, audio_queue,
                 ptask, sent, enq, dropped, nmedia, nturn, ninterim>>

\* send_greeting: a synthesized chunk arrives and is put on audio_queue
HGreetChunk ==
  /\ hpc = "greeting"
  /\ AllStarted
  /\ UNCHANGED <<apiVars, utilVars>>
  /\ audio_queue' = Append(audio_queue, Msg("greeting", session_id, Turns(session_id)))
  /\ enq' = Append(enq, Msg("greeting", session_id, Turns(session_id)))
  /\ hpc' = "greeted"
  /\ UNCHANGED <<regVars, session_id, stream_sid, pipeline_task, sender_task,
                 cause, audio_input_queue, ptask, stask, sent, cntVars>>

\* Variant of GreetingSent with one slip: send_greeting not awaited
GreetingSentNotAwaited(pc) == pc \in {"greeting", "greeted"}

\* "await pipeline.send_greeting(session_id, audio_queue)" has returned: the
\* loop over the synthesized chunks has put them on the queue
GreetingSent(pc) == pc = "greeted"

\* send_greeting returns; create_task(process_call_stream(session_id, ...))
HGreetDone ==
  /\ GreetingSent(hpc)
  /\ UNCHANGED <<apiVars, utilVars>>
  /\ ptask' = Append(ptask, NewPTask(session_id))
  /\ pipeline_task' = Len(ptask) + 1
  /\ hpc' = "recv"
  /\ UNCHANGED <<regVars, session_id, stream_sid, sender_task, cause,
                 audio_input_queue, audio_queue, stask, sent, enq, cntVars>>

\* the synthesis of the greeting raises: except Exception, then finally
HGreetError ==
  /\ hpc \in {"greeting", "greeted"}
  /\ AllStarted
  /\ UNCHANGED <<apiVars, utilVars>>
  /\ Cleanup(audio_queue, "error")
  /\ UNCHANGED <<audio_input_queue, sent, enq, cntVars>>

\* the test of the media branch: "if session_id is None: continue"
MediaDropNever(sid) == FALSE
MediaDrop(sid) == sid = None

\* event == "media": dropped before a start; otherwise decoded (a payload that
\* does not decode raises) and put on audio_input_queue
HMedia(ok) ==
  /\ hpc = "recv"
  /\ UNCHANGED <<apiVars, utilVars>>
  /\ Inputs < MaxInputs
  /\ nmedia' = nmedia + 1
  /\ dropped' = IF nstart = 0 THEN dropped \cup {nmedia + 1} ELSE dropped
  /\ IF MediaDrop(session_id)
     THEN UNCHANGED <<regVars, hVars, audio_input_queue, audio_queue, ptask, stask>>
     ELSE IF ok
          THEN /\ audio_input_queue' = Append(audio_input_queue, nmedia + 1)
               /\ UNCHANGED <<regVars, hVars, audio_queue, ptask, stask>>
          ELSE /\ Cleanup(audio_queue, "error")
               /\ UNCHANGED audio_input_queue
  /\ UNCHANGED <<sent, enq, nstart, nturn, ninterim>>

\* event == "stop", up to its first suspension
HStop ==
  /\ hpc = "recv"
  /\ UNCHANGED <<apiVars, utilVars>>
  /\ audio_input_queue' = Append(audio_input_queue, None)
  /\ IF pipeline_task # None
     THEN /\ hpc' = "wait_pipeline"
          /\ UNCHANGED <<regVars, audio_queue, ptask, stask, cause,
                         session_id, stream_sid, pipeline_task, sender_task>>
     ELSE IF sender_task # None
          THEN /\ audio_queue' = Append(audio_queue, NoneMsg)
               /\ hpc' = "wait_sender"
               /\ UNCHANGED <<regVars, ptask, stask, cause,
                              session_id, stream_sid, pipeline_task, sender_task>>
          ELSE Cleanup(Append(audio_queue, NoneMsg), "stop")
  /\ UNCHANGED <<sent, enq, cntVars>>

\* wait_for(pipeline_task, 5.0) times out: the task is cancelled and awaited
HPipelineTimeout ==
  /\ hpc = "wait_pipeline"
  /\ AllStarted
  /\ UNCHANGED <<apiVars, utilVars>>
  /\ ptask[pipeline_task].pc \in PRunning
  /\ ~ptask[pipeline_task].cancel
  /\ ptask' = CancelP(ptask, pipeline_task)
  /\ UNCHANGED <<regVars, hVars, audio_input_queue, audio_queue, stask, sent,
                 enq, cntVars>>

\* the pipeline task is done: audio_queue.put(None), then wait for the sender
HPipelineJoined ==
  /\ hpc = "wait_pipeline"
  /\ AllStarted
  /\ UNCHANGED <<apiVars, utilVars>>
  /\ Done(ptask, pipeline_task)
  /\ audio_queue' = Append(audio_queue, NoneMsg)
  /\ hpc' = "wait_sender"
  /\ UNCHANGED <<regVars, session_id, stream_sid, pipeline_task, sender_task,
                 cause, audio_input_queue, ptask, stask, sent, enq, cntVars>>

\* wait_for(sender_task, 2.0) times out
HSenderTimeout ==
  /\ hpc = "wait_sender"
  /\ AllStarted
  /\ UNCHANGED <<apiVars, utilVars>>
  /\ ~Done(stask, sender_task)
  /\ ~stask[sender_task].cancel
  /\ stask' = CancelS(stask, sender_task)
  /\ UNCHANGED <<regVars, hVars, audio_input_queue, audio_queue, ptask, sent,
                 enq, cntVars>>

\* the sender task is done: break, then finally
HSenderJoined ==
  /\ hpc = "wait_sender"
  /\ AllStarted
  /\ UNCHANGED <<apiVars, utilVars>>
  /\ Done(stask, sender_task)
  /\ Cleanup(audio_queue, "stop")
  /\ UNCHANGED <<audio_input_queue, sent, enq, cntVars>>

\* receive_text raises WebSocketDisconnect: except, then finally
HDisconnect ==
  /\ hpc = "recv"
  /\ UNCHANGED <<apiVars, utilVars>>
  /\ Cleanup(audio_queue, "disconnect")
  /\ UNCHANGED <<audio_input_queue, sent, enq, cntVars>>

(***************************************************************************)
(* The pipeline task: process_call_stream                                  *)
(***************************************************************************)
\* the finally block of process_call_stream, reached after the except branch
\* caught exc ("none": the loop ended, or CancelledError, which the branch
\* does not catch), and the end of the task
PFinally(t, exc) ==
  /\ Closed(ptask[t].sid)
  /\ ptask' = [ptask EXCEPT ![t].pc = "done", ![t].fin = TRUE, ![t].exc = exc]

\* first run of the task: get_session; "if not session: return"
PStart(t) ==
  /\ ptask[t].pc = "new"
  /\ ~ptask[t].cancel
  /\ UNCHANGED <<apiVars, utilVars>>
  /\ ptask' = [ptask EXCEPT ![t].pc =
                  IF get_session(ptask[t].sid) = None THEN "done" ELSE "listen"]
  /\ UNCHANGED <<regVars, hVars, audio_input_queue, audio_queue, stask, sent,
                 enq, cntVars>>

\* audio_stream_generator: audio_input_queue.get(); None ends the stream
PConsume(t) ==
  /\ ptask[t].pc \in PRunning
  /\ ~ptask[t].cancel
  /\ ~ptask[t].eos
  /\ audio_input_queue # << >>
  /\ UNCHANGED <<apiVars, utilVars>>
  /\ audio_input_queue' = Tail(audio_input_queue)
  /\ ptask' = IF Head(audio_input_queue) = None
              THEN [ptask EXCEPT ![t].eos = TRUE]
              ELSE ptask
  /\ UNCHANGED <<regVars, hVars, audio_queue, stask, sent, enq, cntVars>>

\* the test of the loop of process_call_stream: "if not is_final: continue"
SkipNever(is_final) == FALSE
Skip(is_final) == ~is_final

\* transcribe_stream yields (transcript, is_final). An interim result is
\* skipped; for a final one _process_utterance starts: the user message is
\* recorded and process_message is awaited on the transcript and the history
PTranscript(t, is_final) ==
  /\ ptask[t].pc = "listen"
  /\ ~ptask[t].cancel
  /\ Inputs < MaxInputs
  /\ UNCHANGED <<apiVars, utilVars>>
  /\ nturn' = IF is_final THEN nturn + 1 ELSE nturn
  /\ ninterim' = IF is_final THEN ninterim ELSE ninterim + 1
  /\ IF Skip(is_final)
     THEN UNCHANGED <<heap, ptask>>
     ELSE LET transcript == nturn + ninterim + 1
              o == ObjOf(heap, ptask[t].sid)
              H == add_message(heap, o, "user", transcript)
          IN  /\ heap' = H
              /\ ptask' = [ptask EXCEPT
                             ![t].pc = "llm",
                             ![t].nfinal = IF is_final THEN @ + 1 ELSE @,
                             ![t].transcript = transcript,
                             ![t].messages =
                                messages(transcript,
                                         get_conversation_for_llm(H, o))]
  /\ UNCHANGED <<sessions, trace, err, hVars, audio_input_queue, audio_queue,
                 stask, sent, enq, dropped, nstart, nmedia>>

\* brain.process_message returns its ConversationResponse: the llm_processing
\* metric is recorded, then the print statement reads response.reply, an
\* attribute ConversationResponse does not have: AttributeError leaves
\* _process_utterance (no assistant message, no action, no synthesis), is
\* caught by except Exception of process_call_stream, and finally runs
PLlmReady(t, engine_ok, d, llm_duration) ==
  /\ ptask[t].pc = "llm"
  /\ ~ptask[t].cancel
  /\ UNCHANGED <<apiVars, utilVars>>
  /\ LET response == process_message(engine_ok, d)
         o == ObjOf(heap, ptask[t].sid)
         r == close_session(sessions,
                            add_latency_metric(heap, o, "llm_processing",
                                               llm_duration),
                            trace, ptask[t].sid)
     IN  /\ ~HasAttr(response, "reply")
         /\ sessions' = r.sessions
         /\ heap' = r.heap
         /\ trace' = r.trace
         /\ err' = r.err
         /\ ptask' = [ptask EXCEPT ![t].pc = "done", ![t].fin = TRUE,
                                   ![t].response = response,
                                   ![t].exc = "AttributeError"]
  /\ UNCHANGED <<hVars, audio_input_queue, audio_queue, stask, sent, enq,
                 cntVars>>

\* transcribe_stream is exhausted after the end of the audio stream
PEnd(t) ==
  /\ ptask[t].pc = "listen"
  /\ ~ptask[t].cancel
  /\ ptask[t].eos
  /\ UNCHANGED <<apiVars, utilVars>>
  /\ PFinally(t, "none")
  /\ UNCHANGED <<hVars, audio_input_queue, audio_queue, stask, sent, enq,
                 cntVars>>

\* the recogniser raises: except Exception, then finally
PError(t) ==
  /\ ptask[t].pc = "listen"
  /\ ~ptask[t].cancel
  /\ UNCHANGED <<apiVars, utilVars>>
  /\ PFinally(t, "Exception")
  /\ UNCHANGED <<hVars, audio_input_queue, audio_queue, stask, sent, enq,
                 cntVars>>

\* the cancellation is delivered: CancelledError passes except Exception and
\* runs finally; a task that never ran just ends
PCancelled(t) ==
  /\ ~Done(ptask, t)
  /\ ptask[t].cancel
  /\ UNCHANGED <<apiVars, utilVars>>
  /\ IF ptask[t].pc = "new"
     THEN /\ ptask' = [ptask EXCEPT ![t].pc = "done"]
          /\ UNCHANGED regVars
     ELSE PFinally(t, "none")
  /\ UNCHANGED <<hVars, audio_input_queue, audio_queue, stask, sent, enq,
                 cntVars>>

(***************************************************************************)
(* The sender task: send_audio_to_twilio                                   *)
(***************************************************************************)
\* audio_queue.get() returns: None ends the loop; otherwise the message gets
\* the current stream_sid and send_json is awaited
SGet(s) ==
  /\ stask[s].pc = "run"
  /\ ~stask[s].cancel
  /\ audio_queue # << >>
  /\ UNCHANGED <<apiVars, utilVars>>
  /\ audio_queue' = Tail(audio_queue)
  /\ stask' = IF Head(audio_queue) = NoneMsg
              THEN [stask EXCEPT ![s].pc = "done"]
              ELSE [stask EXCEPT ![s].pc = "sending",
                                 ![s].msg = [Head(audio_queue) EXCEPT
                                               !.streamSid = stream_sid]]
  /\ UNCHANGED <<regVars, hVars, audio_input_queue, ptask, sent, enq, cntVars>>

\* send_json returns, or raises: except Exception, break
SSend(s, ok) ==
  /\ stask[s].pc = "sending"
  /\ ~stask[s].cancel
  /\ UNCHANGED <<apiVars, utilVars>>
  /\ IF ok
     THEN /\ sent' = Append(sent, stask[s].msg)
          /\ stask' = [stask EXCEPT ![s].pc = "run", ![s].msg = NoneMsg]
     ELSE /\ stask' = [stask EXCEPT ![s].pc = "done", ![s].failed = TRUE]
          /\ UNCHANGED sent
  /\ UNCHANGED <<regVars, hVars, audio_input_queue, audio_queue, ptask, enq,
                 cntVars>>

\* the cancellation is delivered in audio_queue.get() or in send_json
SCancelled(s) ==
  /\ ~Done(stask, s)
  /\ stask[s].cancel
  /\ UNCHANGED <<apiVars, utilVars>>
  /\ stask' = [stask EXCEPT ![s].pc = "done"]
  /\ UNCHANGED <<regVars, hVars, audio_input_queue, audio_queue, ptask, sent,
                 enq, cntVars>>

(***************************************************************************)
(* The parts not driven in Spec and SpecReg                                *)
(***************************************************************************)
BufIdle ==
  /\ max_duration_ms = 0
  /\ buffer = << >>
  /\ fed = << >>
  /\ nbytes = 0
  /\ nops = 0

\* no call of AudioCodec made yet
NoCodecCall ==
  [ op |-> "none", given |-> "none", arg |-> << >>, from_rate |-> 0,
    to_rate |-> 0, sample_width |-> 0, of |-> << >>, out |-> << >>,
    err |-> "none" ]

CodecIdle == codec = NoCodecCall

\* the attributes of the session that _handle_actions reads
NoSession == [session_id |-> None, caller_phone |-> None]

\* no call of _handle_actions made yet
NoAct ==
  [ op |-> "none", session |-> NoSession, response |-> NoResponse,
    calls |-> << >>, caught |-> "none" ]

ActIdle == act = NoAct

\* run_conversation not called
NoConv == [pc |-> "idle", sid |-> None, n |-> 0, i |-> 0, cur |-> None]

\* no ConversationOrchestrator in use
OrchIdle ==
  /\ orch = << >>
  /\ generate_audio = FALSE
  /\ coro = << >>
  /\ conv = NoConv

TurnIdle == ActIdle /\ OrchIdle

(***************************************************************************)
(* SpecBuf: one AudioBuffer                                                *)
(***************************************************************************)
SAMPLE_RATE  == 8000
SAMPLE_WIDTH == 2

\* AudioBuffer.__init__: int(SAMPLE_RATE * SAMPLE_WIDTH * max_duration_ms / 1000)
max_bytes(ms) == (SAMPLE_RATE * SAMPLE_WIDTH * ms) \div 1000

\* b[-k:] of Python for k >= 0: the last k elements, all of b when k = 0 or
\* k >= len(b)
LastSlice(b, k) ==
  IF k = 0 \/ k >= Len(b) THEN b ELSE SubSeq(b, Len(b) - k + 1, Len(b))

\* Variants of add_chunk, each with one slip.
add_chunk_check_first(b, chunk, mb) ==   \* the length tested before extend
  IF Len(b) > mb THEN LastSlice(b \o chunk, mb) ELSE b \o chunk

add_chunk_keep_oldest(b, chunk, mb) ==   \* [:max_bytes] for [-max_bytes:]
  IF Len(b \o chunk) > mb THEN SubSeq(b \o chunk, 1, mb) ELSE b \o chunk

\* add_chunk: extend, then keep the last max_bytes when longer
add_chunk(b, chunk, mb) ==
  IF Len(b \o chunk) > mb THEN LastSlice(b \o chunk, mb) ELSE b \o chunk

get_audio == buffer

\* duration_ms() <= ms, in exact arithmetic:
\* (len / SAMPLE_WIDTH / SAMPLE_RATE) * 1000 <= ms
DurationAtMost(b, ms) == Len(b) * 1000 <= ms * SAMPLE_WIDTH * SAMPLE_RATE

\* the lengths of the chunks given to add_chunk: none, short, around the
\* capacity, and longer than the capacity
ChunkLens(mb) == {0, 1, 2} \cup ((mb - 1)..(mb + ChunkSlack))

\* the next n bytes of the audio stream: byte k of the stream is k mod 256
Bytes(from, n) == [i \in 1..n |-> (from + i) % 256]

BufInit ==
  /\ max_duration_ms \in 1..MaxDurMs
  /\ buffer = << >>
  /\ fed = << >>
  /\ nbytes = 0
  /\ nops = 0

AddChunk(n) ==
  /\ nops < MaxOps
  /\ UNCHANGED <<regVars, apiVars, connVars, codec, turnVars>>
  /\ buffer' = add_chunk(buffer, Bytes(nbytes, n), max_bytes(max_duration_ms))
  /\ fed' = fed \o Bytes(nbytes, n)
  /\ nbytes' = nbytes + n
  /\ nops' = nops + 1
  /\ UNCHANGED max_duration_ms

\* clear: buffer.clear()
Clear ==
  /\ nops < MaxOps
  /\ UNCHANGED <<regVars, apiVars, connVars, codec, turnVars>>
  /\ buffer' = << >>
  /\ fed' = << >>
  /\ nops' = nops + 1
  /\ UNCHANGED <<max_duration_ms, nbytes>>

BufNext ==
  \/ \E n \in ChunkLens(max_bytes(max_duration_ms)) : AddChunk(n)
  \/ Clear

InitBuf == RegInit /\ ApiInit /\ ConnInit /\ BufInit /\ CodecIdle /\ TurnIdle

SpecBuf == InitBuf /\ [][BufNext]_vars

(***************************************************************************)
(* AudioCodec: mu-law, base64 and sample-rate conversion                   *)
(***************************************************************************)
Byte == 0..255

RECURSIVE Pow2(_)
Pow2(k) == IF k = 0 THEN 1 ELSE 2 * Pow2(k - 1)

RECURSIVE gcd(_, _)
gcd(a, b) == IF b = 0 THEN a ELSE gcd(b, a % b)

\* base64 text as the sequence of its 6-bit values; Pad is "="
Pad == 64

\* base64.b64encode
RECURSIVE b64encode(_)
b64encode(s) ==
  IF Len(s) = 0 THEN << >>
  ELSE IF Len(s) = 1
  THEN << s[1] \div 4, (s[1] % 4) * 16, Pad, Pad >>
  ELSE IF Len(s) = 2
  THEN << s[1] \div 4, (s[1] % 4) * 16 + s[2] \div 16, (s[2] % 16) * 4, Pad >>
  ELSE << s[1] \div 4, (s[1] % 4) * 16 + s[2] \div 16,
          (s[2] % 16) * 4 + s[3] \div 64, s[3] % 64 >>
       \o b64encode(SubSeq(s, 4, Len(s)))

\* base64.b64decode of well-formed text
RECURSIVE b64decode(_)
b64decode(c) ==
  IF Len(c) < 4 THEN << >>
  ELSE IF c[3] = Pad
  THEN << c[1] * 4 + c[2] \div 16 >>
  ELSE IF c[4] = Pad
  THEN << c[1] * 4 + c[2] \div 16, (c[2] % 16) * 16 + c[3] \div 4 >>
  ELSE << c[1] * 4 + c[2] \div 16, (c[2] % 16) * 16 + c[3] \div 4,
          (c[3] % 4) * 64 + c[4] >>
       \o b64decode(SubSeq(c, 5, Len(c)))

\* the little-endian number in the w bytes of x from position i
RECURSIVE LittleEndian(_, _, _)
LittleEndian(x, i, w) ==
  IF w = 0 THEN 0 ELSE x[i] + 256 * LittleEndian(x, i + 1, w - 1)

\* the signed samples of width w in the bytes x (whole samples only)
Samples(x, w) ==
  [k \in 1..(Len(x) \div w) |->
     LET u == LittleEndian(x, (k - 1) * w + 1, w)
     IN  IF u >= Pow2(8 * w - 1) THEN u - Pow2(8 * w) ELSE u]

\* the bytes of the signed samples S at width w, little-endian
SampleBytes(S, w) ==
  [j \in 1..(Len(S) * w) |->
     LET v == S[((j - 1) \div w) + 1]
         u == IF v < 0 THEN v + Pow2(8 * w) ELSE v
     IN  (u \div Pow2(8 * ((j - 1) % w))) % 256]

\* audioop: the decoding table of mu-law, one byte to a 16-bit sample
st_ulaw2linear16(b) ==
  LET u == 255 - b
      t == (((u % 16) * 8) + 132) * Pow2((u \div 16) % 8)
  IN  IF u >= 128 THEN 132 - t ELSE t - 132

\* audioop.ulaw2lin(fragment, width), width >= 2
ulaw2lin(fragment, width) ==
  SampleBytes([k \in 1..Len(fragment) |->
                 st_ulaw2linear16(fragment[k]) * Pow2(8 * (width - 2))], width)

\* the upper ends of the segments of mu-law
seg_uend == << 63, 127, 255, 511, 1023, 2047, 4095, 8191 >>

\* search: the first segment whose upper end is not below val, 8 when none
search(val) ==
  LET F == {i \in 1..Len(seg_uend) : val <= seg_uend[i]}
  IN  IF F = {} THEN 8 ELSE (CHOOSE i \in F : \A j \in F : i <= j) - 1

\* Variant of st_14linear2ulaw with one slip: the bias not added
st_14linear2ulaw_nobias(pcm_val) ==
  LET neg == pcm_val < 0
      m   == IF neg THEN 0 - pcm_val ELSE pcm_val
      v   == IF m > 8159 THEN 8159 ELSE m
      seg == search(v)
      uval == IF seg >= 8 THEN 127
              ELSE seg * 16 + ((v \div Pow2(seg + 1)) % 16)
  IN  IF neg THEN 127 - uval ELSE 255 - uval

\* audioop: a 14-bit sample to its mu-law byte: sign, clip at 8159, bias 33,
\* segment and four quantization bits, every bit inverted
st_14linear2ulaw(pcm_val) ==
  LET neg == pcm_val < 0
      m   == IF neg THEN 0 - pcm_val ELSE pcm_val
      v   == (IF m > 8159 THEN 8159 ELSE m) + 33
      seg == search(v)
      uval == IF seg >= 8 THEN 127
              ELSE seg * 16 + ((v \div Pow2(seg + 1)) % 16)
  IN  IF neg THEN 127 - uval ELSE 255 - uval

\* the mu-law bytes of the whole samples of fragment
UlawOf(fragment, width) ==
  [k \in 1..(Len(fragment) \div width) |->
     LET sample == Samples(fragment, width)[k]
     IN  st_14linear2ulaw(IF width = 1 THEN sample * 64
                          ELSE sample \div Pow2(8 * width - 14))]

\* Variant of lin2ulaw with one slip: a trailing partial sample is dropped
lin2ulaw_truncating(fragment, width) ==
  [out |-> UlawOf(fragment, width), err |-> "none"]

\* audioop.lin2ulaw(fragment, width): "not a whole number of frames" unless
\* the length is a multiple of width
lin2ulaw(fragment, width) ==
  IF Len(fragment) % width # 0
  THEN [out |-> << >>, err |-> "audioop.error"]
  ELSE [out |-> UlawOf(fragment, width), err |-> "none"]

\* the two loops of audioop.ratecv over the samples S from index k, with
\* state d, prev_i, cur_i: a sample is read while d < 0, a sample is
\* interpolated and written while d >= 0
RECURSIVE ratecv_loop(_, _, _, _, _, _, _, _)
ratecv_loop(S, k, d, prev_i, cur_i, inrate, outrate, out) ==
  IF d < 0
  THEN IF k > Len(S) THEN out
       ELSE ratecv_loop(S, k + 1, d + outrate, cur_i, S[k], inrate, outrate, out)
  ELSE ratecv_loop(S, k, d - inrate, prev_i, cur_i, inrate, outrate,
                   Append(out, (prev_i * d + cur_i * (outrate - d)) \div outrate))

\* audioop.ratecv(fragment, width, 1, inrate, outrate, None)[0]
ratecv(fragment, width, inrate, outrate) ==
  IF Len(fragment) % width # 0
  THEN [out |-> << >>, err |-> "audioop.error"]
  ELSE LET g == gcd(inrate, outrate)
       IN  [out |-> SampleBytes(ratecv_loop(Samples(fragment, width), 1,
                                            0 - (outrate \div g), 0, 0,
                                            inrate \div g, outrate \div g, << >>),
                                width),
            err |-> "none"]

\* AudioCodec.decode_mulaw_base64
decode_mulaw_base64(base64_data) == ulaw2lin(b64decode(base64_data), 2)

\* AudioCodec.encode_pcm_to_mulaw_base64
encode_pcm_to_mulaw_base64(pcm_bytes) ==
  LET r == lin2ulaw(pcm_bytes, 2)
  IN  [out |-> b64encode(r.out), err |-> r.err]

\* Variant of resample_audio with one slip: the test of the rates dropped
resample_audio_always(audio_bytes, from_rate, to_rate, sample_width) ==
  ratecv(audio_bytes, sample_width, from_rate, to_rate)

\* AudioCodec.resample_audio
resample_audio(audio_bytes, from_rate, to_rate, sample_width) ==
  IF from_rate = to_rate
  THEN [out |-> audio_bytes, err |-> "none"]
  ELSE ratecv(audio_bytes, sample_width, from_rate, to_rate)

\* the byte values of the PCM buffers tried: zero, one, and the two around
\* the sign
PcmBytes == {0, 1, 128, 255}

RECURSIVE SeqsUpTo(_, _)
SeqsUpTo(A, n) ==
  IF n = 0 THEN {<< >>}
  ELSE LET P == SeqsUpTo(A, n - 1)
       IN  P \cup {Append(p, a) : p \in {q \in P : Len(q) = n - 1}, a \in A}

PcmBuffers == SeqsUpTo(PcmBytes, MaxPcmLen)

\* the rates of the transport, of the recogniser and of the synthesis
Rates == {SAMPLE_RATE, 2 * SAMPLE_RATE, 3 * SAMPLE_RATE}

Widths == {1, SAMPLE_WIDTH}

\* the arguments of a call: the base64 text of one mu-law byte, or a PCM
\* buffer with the rates and the sample width
CodecInit ==
  \/ \E b \in Byte :
        codec = [NoCodecCall EXCEPT !.given = "base64",
                                    !.arg = b64encode(<< b >>)]
  \/ \E x \in PcmBuffers : \E from_rate \in Rates : \E to_rate \in Rates :
        \E sample_width \in Widths :
           codec = [NoCodecCall EXCEPT !.given = "pcm", !.arg = x,
                                       !.from_rate = from_rate,
                                       !.to_rate = to_rate,
                                       !.sample_width = sample_width]

\* decode_mulaw_base64(arg)
CodecDecode ==
  /\ codec.op = "none"
  /\ codec.given = "base64"
  /\ UNCHANGED <<regVars, apiVars, connVars, bufVars, turnVars>>
  /\ codec' = [codec EXCEPT !.op = "decode",
                            !.out = decode_mulaw_base64(codec.arg)]

\* encode_pcm_to_mulaw_base64 on the PCM that the last call decoded
CodecEncodeDecoded ==
  /\ codec.op = "decode"
  /\ UNCHANGED <<regVars, apiVars, connVars, bufVars, turnVars>>
  /\ LET r == encode_pcm_to_mulaw_base64(codec.out)
     IN  codec' = [codec EXCEPT !.op = "encode", !.given = "pcm",
                                !.arg = codec.out, !.of = codec.arg,
                                !.out = r.out, !.err = r.err]

\* encode_pcm_to_mulaw_base64(arg)
CodecEncode ==
  /\ codec.op = "none"
  /\ codec.given = "pcm"
  /\ UNCHANGED <<regVars, apiVars, connVars, bufVars, turnVars>>
  /\ LET r == encode_pcm_to_mulaw_base64(codec.arg)
     IN  codec' = [codec EXCEPT !.op = "encode", !.out = r.out, !.err = r.err]

\* resample_audio(arg, from_rate, to_rate, sample_width)
CodecResample ==
  /\ codec.op = "none"
  /\ codec.given = "pcm"
  /\ UNCHANGED <<regVars, apiVars, connVars, bufVars, turnVars>>
  /\ LET r == resample_audio(codec.arg, codec.from_rate, codec.to_rate,
                             codec.sample_width)
     IN  codec' = [codec EXCEPT !.op = "resample",
                                !.out = r.out, !.err = r.err]

CodecNext ==
  \/ CodecDecode
  \/ CodecEncodeDecoded
  \/ CodecEncode
  \/ CodecResample

(***************************************************************************)
(* StreamingPipeline._handle_actions                                       *)
(***************************************************************************)
\* BookingTool.create_booking_from_conversation: it reads booking_data["name"]
\* and the other fields by subscript, which an object without __getitem__
\* (a pydantic model) answers with TypeError
create_booking_from_conversation(booking_data, sid) ==
  IF HasAttr(booking_data, "__getitem__")
  THEN [ raised  |-> "none",
         booking |-> [ customer_name    |-> booking_data.name,
                       customer_phone   |-> booking_data.phone,
                       appointment_date |-> booking_data.date,
                       appointment_time |-> booking_data.time,
                       session_id       |-> sid ] ]
  ELSE [ raised |-> "TypeError", booking |-> None ]

\* Variant of _handle_actions with one slip: booking_complete not tested
handle_actions_any_booking(session, response) ==
  IF response.intent = "booking"
  THEN [ calls |-> << "create_booking_from_conversation" >>,
         caught |-> "TypeError" ]
  ELSE [ calls |-> << >>, caught |-> "none" ]

\* _handle_actions: the calls it makes to the booking tool and to the
\* notification service, in order, and the exception that one of its two
\* "except Exception" branches caught. In the urgent branch the argument
\* response.extracted_data.get(...) is evaluated before send_urgent_alert
\* is called.
_handle_actions(session, response) ==
  IF response.intent = "booking" /\ response.booking_complete
  THEN LET r == create_booking_from_conversation(response.extracted_data,
                                                 session.session_id)
       IN  IF r.raised # "none"
           THEN [ calls  |-> << "create_booking_from_conversation" >>,
                  caught |-> r.raised ]
           ELSE IF session.caller_phone # None
                THEN [ calls  |-> << "create_booking_from_conversation",
                                     "send_booking_confirmation" >>,
                       caught |-> "none" ]
                ELSE [ calls  |-> << "create_booking_from_conversation" >>,
                       caught |-> "none" ]
  ELSE IF response.intent = "urgent" /\ response.needs_escalation
       THEN IF HasAttr(response.extracted_data, "get")
            THEN [ calls |-> << "send_urgent_alert" >>, caught |-> "none" ]
            ELSE [ calls |-> << >>, caught |-> "AttributeError" ]
       ELSE [ calls |-> << >>, caught |-> "none" ]

\* the values of ConversationResponse.intent
Intents == {"faq", "booking", "urgent", "other"}

\* the data the engine extracts: nothing, who, when, or both
Extracted == {ExtractedData(a, a, b, b) : a \in {None, 1}, b \in {None, 1}}

\* the responses process_message can return
Responses ==
  { [ConversationResponse(i, "text", b, n) EXCEPT !.extracted_data = ed] :
       i \in Intents, b \in BOOLEAN, n \in BOOLEAN, ed \in Extracted }
    \cup {Fallback}

\* the arguments of the call: a session with or without the caller's number
\* and a response of the engine
ActInit ==
  \E r \in Responses : \E caller_phone \in {None, 1} :
     act = [NoAct EXCEPT !.session = [session_id |-> 1,
                                      caller_phone |-> caller_phone],
                         !.response = r]

\* _handle_actions(session, response)
ActHandle ==
  /\ act.op = "none"
  /\ UNCHANGED <<regVars, apiVars, connVars, bufVars, codec, orchVars>>
  /\ LET r == _handle_actions(act.session, act.response)
     IN  act' = [act EXCEPT !.op = "_handle_actions",
                            !.calls = r.calls, !.caught = r.caught]

ActNext == ActHandle

(***************************************************************************)
(* ConversationOrchestrator                                                *)
(***************************************************************************)
\* ConversationSession: conversation_history a list of {role, content},
\* booking_data a dict, here with None for a key that is absent
ConversationSession(id, caller_phone) ==
  [ session_id           |-> id,
    caller_phone         |-> caller_phone,
    conversation_history |-> << >>,
    intent               |-> "None",
    booking_data         |-> ExtractedData(None, None, None, None),
    completed            |-> FALSE ]

\* ConversationOrchestrator.get_session: self.sessions.get(session_id), the
\* reference of the session or None
orch_get_session(S, id) == IF id \in DOMAIN S THEN id ELSE None

\* Variant of NotFound with one slip: the test left out
NotFoundNever(session) == FALSE

\* the test of process_text_turn and process_audio_turn: "if not session"
NotFound(session) == session = None

\* Variant of append_turn with one slip: the two appends exchanged
append_turn_reply_first(h, user_text, bot_text) ==
  h \o << [role |-> "assistant", content |-> bot_text],
          [role |-> "user", content |-> user_text] >>

\* process_text_turn, "Update session": the two appends to the history
append_turn(h, user_text, bot_text) ==
  h \o << [role |-> "user", content |-> user_text],
          [role |-> "assistant", content |-> bot_text] >>

\* extracted = model_dump(exclude_none=True); booking_data.update(extracted)
update(booking_data, extracted_data) ==
  [f \in DOMAIN booking_data |->
     IF extracted_data[f] # None THEN extracted_data[f] ELSE booking_data[f]]

\* Variant of Complete with one slip: needs_escalation not tested
CompleteBookingOnly(llm_response) == llm_response.booking_complete

\* the test "if llm_response.booking_complete or llm_response.needs_escalation"
Complete(llm_response) ==
  llm_response.booking_complete \/ llm_response.needs_escalation

\* the responses the engine gives to the orchestrator: a booking that is
\* complete, with its data, and an escalation (neither flag is set in the
\* fallback response, which process_message builds when the engine fails)
OrchDirectives ==
  { [ConversationResponse("booking", "text", TRUE, FALSE)
       EXCEPT !.extracted_data = ExtractedData(1, 1, 1, 1)],
    ConversationResponse("urgent", "text", FALSE, TRUE) }

\* an id that no session gets (the ids are uuids: a caller knows the ids of
\* the sessions made, any other id it gives is never that of a session)
UnknownId == MaxOrchSessions + 1

\* session ids given by callers: those of the sessions made, or another
OrchIds == (DOMAIN orch) \cup {UnknownId}

\* a call of process_text_turn or process_audio_turn: by is the caller
\* ("run" for run_conversation, which passes file number file), user_text
\* the text of the turn once known, ext the external engines the call has
\* called, in order, messages the list process_message gave to the dialogue
\* engine, raised the exception that ended the call
NewCoro(op, sid, user_text, by, file) ==
  [ op |-> op, sid |-> sid, user_text |-> user_text, by |-> by, file |-> file,
    pc |-> "new", ext |-> << >>, messages |-> << >>, raised |-> "none",
    response |-> NoResponse ]

\* process_text_turn up to its suspension in brain.process_message, for the
\* call with record c
text_turn_entry(S, c) ==
  LET session == orch_get_session(S, c.sid)
  IN  IF NotFound(session)
      THEN [c EXCEPT !.pc = "raised", !.raised = "ValueError"]
      ELSE IF session = None     \* session.conversation_history on None
      THEN [c EXCEPT !.pc = "raised", !.raised = "AttributeError"]
      ELSE [c EXCEPT !.pc = "llm",
                     !.ext = Append(@, "brain"),
                     !.messages =
                        messages(c.user_text, S[session].conversation_history)]

\* process_audio_turn up to its suspension in asr.transcribe_file
audio_turn_entry(S, c) ==
  LET session == orch_get_session(S, c.sid)
  IN  IF NotFound(session)
      THEN [c EXCEPT !.pc = "raised", !.raised = "ValueError"]
      ELSE [c EXCEPT !.pc = "asr", !.ext = Append(@, "asr")]

\* the caller awaits each of its calls ("result = await ..."): it makes the
\* next one when the last one has returned or raised, and a call of
\* run_conversation counts as one
CallerReady ==
  /\ conv.pc # "turn"
  /\ \A k \in DOMAIN coro : coro[k].pc \in {"done", "raised"}

OrchInit ==
  /\ orch = << >>
  /\ generate_audio \in BOOLEAN
  /\ coro = << >>
  /\ conv = NoConv

\* create_session(): the id is a fresh uuid
OrchCreate ==
  /\ Len(orch) < MaxOrchSessions
  /\ UNCHANGED notOrch
  /\ orch' = Append(orch, ConversationSession(Len(orch) + 1, None))
  /\ UNCHANGED <<generate_audio, coro, conv>>

\* process_text_turn(user_text, sid) is called
OrchTextTurn(sid) ==
  /\ Len(coro) < MaxTurnCalls
  /\ CallerReady
  /\ UNCHANGED notOrch
  /\ coro' = Append(coro,
                    text_turn_entry(orch,
                                    NewCoro("process_text_turn", sid,
                                            Len(coro) + 1, "caller", 0)))
  /\ UNCHANGED <<orch, generate_audio, conv>>

\* process_audio_turn(audio_file_path, sid) is called
OrchAudioTurn(sid) ==
  /\ Len(coro) < MaxTurnCalls
  /\ CallerReady
  /\ UNCHANGED notOrch
  /\ coro' = Append(coro,
                    audio_turn_entry(orch,
                                     NewCoro("process_audio_turn", sid, None,
                                             "caller", 0)))
  /\ UNCHANGED <<orch, generate_audio, conv>>

\* asr.transcribe_file returns the text, or raises; with the text
\* process_text_turn is called
OrchAsrReady(k, ok) ==
  /\ coro[k].pc = "asr"
  /\ UNCHANGED notOrch
  /\ coro' = IF ok
             THEN [coro EXCEPT ![k] =
                      text_turn_entry(orch, [coro[k] EXCEPT !.user_text = k])]
             ELSE [coro EXCEPT ![k].pc = "raised", ![k].raised = "Exception"]
  /\ UNCHANGED <<orch, generate_audio, conv>>

\* brain.process_message returns: process_text_turn updates the session and
\* returns; process_audio_turn then asks for the audio when generate_audio
OrchLlmReady(k, engine_ok, d) ==
  /\ coro[k].pc = "llm"
  /\ UNCHANGED notOrch
  /\ LET llm_response == process_message(engine_ok, d)
         sid == coro[k].sid
     IN  /\ orch' = [orch EXCEPT
                       ![sid].conversation_history =
                          append_turn(@, coro[k].user_text,
                                      llm_response.message),
                       ![sid].intent = llm_response.intent,
                       ![sid].booking_data =
                          update(@, llm_response.extracted_data),
                       ![sid].completed =
                          IF Complete(llm_response) THEN TRUE ELSE @]
         /\ coro' = IF coro[k].op = "process_audio_turn" /\ generate_audio
                    THEN [coro EXCEPT ![k].pc = "tts",
                                      ![k].ext = Append(@, "tts"),
                                      ![k].response = llm_response]
                    ELSE [coro EXCEPT ![k].pc = "done",
                                      ![k].response = llm_response]
  /\ UNCHANGED <<generate_audio, conv>>

\* tts.synthesize_to_file returns, or raises
OrchTtsReady(k, ok) ==
  /\ coro[k].pc = "tts"
  /\ UNCHANGED notOrch
  /\ coro' = IF ok
             THEN [coro EXCEPT ![k].pc = "done"]
             ELSE [coro EXCEPT ![k].pc = "raised", ![k].raised = "Exception"]
  /\ UNCHANGED <<orch, generate_audio, conv>>

\* run_conversation(audio_files) with n files: create_session, then the
\* first pass of the loop up to its suspension in process_audio_turn
OrchRun(n) ==
  /\ conv.pc = "idle"
  /\ CallerReady
  /\ Len(orch) < MaxOrchSessions
  /\ Len(coro) + n <= MaxTurnCalls
  /\ UNCHANGED notOrch
  /\ LET sid == Len(orch) + 1
         S == Append(orch, ConversationSession(sid, None))
     IN  /\ orch' = S
         /\ IF n = 0
            THEN /\ conv' = [NoConv EXCEPT !.pc = "done", !.sid = sid]
                 /\ UNCHANGED coro
            ELSE /\ conv' = [pc |-> "turn", sid |-> sid, n |-> n, i |-> 1,
                             cur |-> Len(coro) + 1]
                 /\ coro' = Append(coro,
                               audio_turn_entry(S,
                                  NewCoro("process_audio_turn", sid, None,
                                          "run", 1)))
  /\ UNCHANGED generate_audio

\* process_audio_turn returns to run_conversation, or raises: the exception
\* leaves run_conversation; "if session.completed: break"; the next file
OrchRunNext ==
  /\ conv.pc = "turn"
  /\ coro[conv.cur].pc \in {"done", "raised"}
  /\ UNCHANGED notOrch
  /\ IF coro[conv.cur].pc = "raised"
     THEN /\ conv' = [conv EXCEPT !.pc = "raised"]
          /\ UNCHANGED coro
     ELSE IF orch[conv.sid].completed \/ conv.i = conv.n
     THEN /\ conv' = [conv EXCEPT !.pc = "done"]
          /\ UNCHANGED coro
     ELSE /\ Len(coro) < MaxTurnCalls
          /\ conv' = [conv EXCEPT !.i = @ + 1, !.cur = Len(coro) + 1]
          /\ coro' = Append(coro,
                        audio_turn_entry(orch,
                           NewCoro("process_audio_turn", conv.sid, None,
                                   "run", conv.i + 1)))
  /\ UNCHANGED <<orch, generate_audio>>

OrchNext ==
  \/ OrchCreate
  \/ \E sid \in OrchIds : OrchTextTurn(sid)
  \/ \E sid \in OrchIds : OrchAudioTurn(sid)
  \/ \E k \in DOMAIN coro : \E ok \in BOOLEAN : OrchAsrReady(k, ok)
  \/ \E k \in DOMAIN coro : \E engine_ok \in BOOLEAN : \E d \in OrchDirectives :
        OrchLlmReady(k, engine_ok, d)
  \/ \E k \in DOMAIN coro : \E ok \in BOOLEAN : OrchTtsReady(k, ok)
  \/ \E n \in 0..MaxFiles : OrchRun(n)
  \/ OrchRunNext

Init == RegInit /\ ApiInit /\ ConnInit /\ BufIdle /\ CodecIdle /\ TurnIdle

Next ==
  \/ \E ssid \in StreamSids : HStart(ssid)
  \/ HGreetChunk
  \/ HGreetDone
  \/ HGreetError
  \/ \E ok \in BOOLEAN : HMedia(ok)
  \/ HStop
  \/ HPipelineTimeout
  \/ HPipelineJoined
  \/ HSenderTimeout
  \/ HSenderJoined
  \/ HDisconnect
  \/ \E t \in DOMAIN ptask : PStart(t)
  \/ \E t \in DOMAIN ptask : PConsume(t)
  \/ \E t \in DOMAIN ptask : \E is_final \in BOOLEAN : PTranscript(t, is_final)
  \/ \E t \in DOMAIN ptask : \E engine_ok \in BOOLEAN : \E d \in Directives :
        \E llm_duration \in Durations : PLlmReady(t, engine_ok, d, llm_duration)
  \/ \E t \in DOMAIN ptask : PEnd(t)
  \/ \E t \in DOMAIN ptask : PError(t)
  \/ \E t \in DOMAIN ptask : PCancelled(t)
  \/ \E s \in DOMAIN stask : SGet(s)
  \/ \E s \in DOMAIN stask : \E ok \in BOOLEAN : SSend(s, ok)
  \/ \E s \in DOMAIN stask : SCancelled(s)

Spec == Init /\ [][Next]_vars

\* What the event loop and its timers guarantee: a task that can run is run
\* (first step, queue.get() on a queue that is not empty, delivery of a
\* cancellation), the timeout of wait_for fires, and the handler resumes
\* when the task it awaits is done. Nothing is assumed of the transport, the
\* recogniser, the dialogue engine or the synthesis.
\* the tasks a connection can make: one sender and one pipeline task for each
\* start event, which counts three times among the inputs
TaskIds == 1..(MaxInputs \div 3)

Fairness ==
  /\ WF_vars(HPipelineTimeout)
  /\ WF_vars(HPipelineJoined)
  /\ WF_vars(HSenderTimeout)
  /\ WF_vars(HSenderJoined)
  /\ \A t \in TaskIds : WF_vars(t \in DOMAIN ptask /\ PStart(t))
  /\ \A t \in TaskIds : WF_vars(t \in DOMAIN ptask /\ PConsume(t))
  /\ \A t \in TaskIds : WF_vars(t \in DOMAIN ptask /\ PCancelled(t))
  /\ \A s \in TaskIds : WF_vars(s \in DOMAIN stask /\ SGet(s))
  /\ \A s \in TaskIds : WF_vars(s \in DOMAIN stask /\ SCancelled(s))

FairSpec == Spec /\ Fairness

RegNext ==
  \/ \E id \in Ids : RegCreate(id)
  \/ \E id \in Ids : RegGet(id)
  \/ \E id \in Ids : RegClose(id)
  \/ \E id \in Ids : RegAddMessage(id)

SpecReg == Init /\ [][RegNext]_vars

InitCodec == RegInit /\ ApiInit /\ ConnInit /\ BufIdle /\ CodecInit /\ TurnIdle

InitActions ==
  RegInit /\ ApiInit /\ ConnInit /\ BufIdle /\ CodecIdle /\ ActInit /\ OrchIdle

SpecActions == InitActions /\ [][ActNext]_vars

InitOrch ==
  RegInit /\ ApiInit /\ ConnInit /\ BufIdle /\ CodecIdle /\ ActIdle /\ OrchInit

SpecOrch == InitOrch /\ [][OrchNext]_vars

SpecCodec == InitCodec /\ [][CodecNext]_vars

(***************************************************************************)
(* Properties of the connection (Spec)                                     *)
(***************************************************************************)
Objects == 1..Len(heap)

Count(ev, o) ==
  Cardinality({k \in 1..Len(trace) : trace[k] = [ev |-> ev, o |-> o]})

\* one of the ends of session o has happened: its pipeline task has ended
\* (normally, by exception, by cancellation), or the handler of the
\* connection that holds it has ended (stop, disconnect, error)
Terminated(o) ==
  \/ hpc = "done" /\ session_id = heap[o].session_id
  \/ \E t \in DOMAIN ptask :
        ptask[t].sid = heap[o].session_id /\ ptask[t].pc = "done"

\* C1: every session is removed from the registry at most once, its call log
\* is dispatched exactly as often as it is removed and before the removal;
\* and once the stop event, a disconnect or the end of its pipeline task has
\* happened, in any order, it has been removed and logged exactly once.
C1_ClosedExactlyOnce ==
  \A o \in Objects :
    /\ Count("del", o) <= 1
    /\ Count("log", o) = Count("del", o)
    /\ \A k \in 1..Len(trace) :
          trace[k] = DelEv(o) => \E j \in 1..(k - 1) : trace[j] = LogEv(o)
    /\ (Count("del", o) = 1) <=> (heap[o].session_id \notin DOMAIN sessions)
    /\ Terminated(o) => Count("del", o) = 1 /\ Count("log", o) = 1

\* the pipeline task was cancelled and ran its finally block, and the handler
\* ran its own cleanup for the same session: close_session was called twice
C1_Witness ==
  /\ hpc = "done"
  /\ \E t \in DOMAIN ptask :
        ptask[t].sid = session_id /\ ptask[t].fin /\ ptask[t].cancel

\* The lifecycle state of the adapter, read off the handler's position
AdapterState ==
  IF hpc = "done" THEN "CLOSED"
  ELSE IF hpc \in {"wait_pipeline", "wait_sender"} THEN "STOPPING"
  ELSE IF session_id = None THEN "NEW"
  ELSE IF hpc \in {"greeting", "greeted"} THEN "STARTED"
  ELSE "ACTIVE"

Rank(st) ==
  CASE st = "NEW" -> 0
    [] st = "STARTED" -> 1
    [] st = "ACTIVE" -> 2
    [] st = "STOPPING" -> 3
    [] st = "CLOSED" -> 4

\* C8: the lifecycle state only advances along NEW, STARTED, ACTIVE,
\* STOPPING, CLOSED; no event moves it back to an earlier state.
C8_LifecycleAdvances ==
  [][Rank(AdapterState') >= Rank(AdapterState)]_vars

\* C9: at any time at most one pipeline task and at most one sender task of
\* the connection are running, so that each queue has one consumer.
C9_OneActorEach ==
  /\ Cardinality({t \in DOMAIN ptask : ptask[t].pc # "done"}) <= 1
  /\ Cardinality({s \in DOMAIN stask : stask[s].pc # "done"}) <= 1

\* C10: a media event received before any start event is dropped: the frame
\* is never on the inbound queue (so it is never delivered later), and the
\* step creates no session, raises nothing and leaves the handler receiving.
C10_MediaBeforeStartDropped ==
  /\ [](\A f \in dropped :
          \A k \in 1..Len(audio_input_queue) : audio_input_queue[k] # f)
  /\ [][(nmedia' = nmedia + 1 /\ nstart = 0) =>
          /\ UNCHANGED <<sessions, heap, trace, err>>
          /\ UNCHANGED <<audio_input_queue, audio_queue, ptask, stask>>
          /\ hpc' = "recv"]_vars

\* a frame was dropped, then the call started and its pipeline is listening
C10_Witness ==
  /\ dropped # {}
  /\ \E t \in DOMAIN ptask : ptask[t].pc = "listen"

\* C11: a media event received while the adapter is STOPPING or CLOSED, or
\* while the session of the connection is no longer in the registry (the
\* pipeline task closed it on its own), puts nothing on audio_input_queue.
C11_MediaAfterCloseIgnored ==
  [][(nmedia' = nmedia + 1
        /\ \/ AdapterState \in {"STOPPING", "CLOSED"}
           \/ session_id # None /\ session_id \notin DOMAIN sessions) =>
       audio_input_queue' = audio_input_queue]_vars

\* the close sentinel of the stop branch has been put on audio_queue
SentinelPushed == hpc = "wait_sender" \/ (hpc = "done" /\ cause = "stop")

\* C12: the close sentinel is put on audio_queue only when the pipeline task
\* of the handler has ended (by itself or by the cancellation of wait_for),
\* no audio message is put on the queue after it, and no audio message is
\* ever behind it in the queue.
C12_SentinelLast ==
  /\ [](\A i \in 1..Len(audio_queue) : \A j \in 1..Len(audio_queue) :
          (i < j /\ audio_queue[i] = NoneMsg) => audio_queue[j] = NoneMsg)
  /\ [][(Len(audio_queue') > Len(audio_queue)
          /\ audio_queue'[Len(audio_queue')] = NoneMsg) =>
         (pipeline_task = None \/ ptask[pipeline_task].pc = "done")]_vars
  /\ [][SentinelPushed => enq' = enq]_vars

\* the pipeline task was cancelled by the timeout and ran its finally block,
\* then the sentinel was put behind the greeting that nobody had sent yet
C12_Witness ==
  /\ hpc = "wait_sender"
  /\ ptask[pipeline_task].cancel
  /\ ptask[pipeline_task].fin
  /\ Len(audio_queue) >= 2
  /\ audio_queue[Len(audio_queue)] = NoneMsg
  /\ audio_queue[1].kind = "greeting"

\* C13: once the stop event has been taken the handler reaches CLOSED, also
\* when the pipeline task and the sender never end by themselves: the
\* timeouts cancel them; and when the stop branch has ended, the pipeline
\* task and the sender task of the handler are done and its session is not
\* in the registry.
C13_StopReachesClosed ==
  /\ (hpc \in {"wait_pipeline", "wait_sender"}) ~> (hpc = "done")
  /\ [](cause = "stop" =>
          /\ hpc = "done"
          /\ pipeline_task # None => ptask[pipeline_task].pc = "done"
          /\ sender_task # None => stask[sender_task].pc = "done"
          /\ session_id # None => session_id \notin DOMAIN sessions)

\* the stop branch has ended after both timeouts: the pipeline task was
\* cancelled while it waited for the dialogue engine, the sender while it
\* waited in send_json
C13_Witness ==
  /\ cause = "stop"
  /\ pipeline_task # None
  /\ ptask[pipeline_task].cancel
  /\ stask[sender_task].cancel
  /\ stask[sender_task].msg # NoneMsg

C15_SentInOrderWithSid ==
  /\ Len(sent) <= Len(enq)
  /\ \A k \in 1..Len(sent) :
        /\ [sent[k] EXCEPT !.streamSid = None] = enq[k]
        /\ sent[k].streamSid = heap[ObjOf(heap, sent[k].sid)].stream_sid

\* C16: a sender whose write failed has stopped, the message of the failed
\* write is not among the messages written, and the session of that sender
\* (sender s is made by the start event that makes session s) is eventually
\* out of the registry.
C16_WriteFailureCleansUp ==
  /\ [](\A s \in DOMAIN stask :
          stask[s].failed =>
            /\ stask[s].pc = "done"
            /\ \A k \in 1..Len(sent) : sent[k] # stask[s].msg)
  /\ \A s \in TaskIds :
        (s \in DOMAIN stask /\ stask[s].failed) ~> (s \notin DOMAIN sessions)

\* the user messages in the history of session object o
CallerTurns(o) ==
  {k \in 1..Len(heap[o].conversation_history) :
      heap[o].conversation_history[k].role = "user"}

\* C17: a transcript event that is not final changes nothing but the count
\* of events: no message is recorded, the dialogue engine is not awaited,
\* nothing is put on audio_queue, no session is closed; and the user
\* messages of all sessions are never more than the final events taken.
C17_OnlyFinalDrives ==
  /\ [][ninterim' = ninterim + 1 =>
         UNCHANGED <<regVars, ptask, stask, audio_queue, enq, sent, hVars>>]_vars
  /\ [](Cardinality(UNION {{<<o, k>> : k \in CallerTurns(o)} : o \in Objects})
          <= nturn)

\* an interim event was skipped, then a final one started a turn
C17_Witness ==
  /\ ninterim >= 1
  /\ \E t \in DOMAIN ptask :
        /\ ptask[t].pc = "llm"
        /\ CallerTurns(ObjOf(heap, ptask[t].sid)) # {}

\* C18: whenever a pipeline task that was not cancelled is between two turns
\* or has ended, the history of its session is the greeting followed by
\* user and assistant messages in alternation, one assistant message after
\* each user message, the user messages in the order of the transcripts.
C18_TurnsAlternate ==
  \A t \in DOMAIN ptask :
    (ptask[t].pc \in {"listen", "done"} /\ ~ptask[t].cancel) =>
      LET o == ObjOf(heap, ptask[t].sid)
          h == heap[o].conversation_history
      IN  /\ Len(h) % 2 = 1
          /\ \A k \in 2..Len(h) :
                h[k].role = IF k % 2 = 0 THEN "user" ELSE "assistant"
          /\ \A j \in CallerTurns(o) : \A k \in CallerTurns(o) :
                j < k => h[j].content < h[k].content

\* C19: the turn in which the dialogue engine fails gets the fallback
\* response, and the step that receives it neither ends the pipeline task
\* nor closes the session: the session stays in the registry, active, and the
\* task goes on to the next transcript.
C19_FallbackKeepsPipeline ==
  /\ [](\A t \in DOMAIN ptask :
          ptask[t].response \in Directives \cup {Fallback, NoResponse})
  /\ [][\A t \in DOMAIN ptask :
          (ptask[t].pc = "llm" /\ ptask[t].response = NoResponse
             /\ ptask'[t].response = Fallback) =>
            /\ ptask'[t].pc # "done"
            /\ ptask[t].sid \in DOMAIN sessions'
            /\ heap'[ObjOf(heap', ptask[t].sid)].is_active]_vars

\* C20: the turn whose response has intent booking and booking_complete
\* false leaves the pipeline task running and the session in the registry
\* and active, and once the turn is over at least one reply chunk of that
\* session has been put on audio_queue.
C20_BookingIncompleteTurn ==
  /\ [][\A t \in DOMAIN ptask :
          (ptask[t].pc = "llm" /\ ptask[t].response = NoResponse
             /\ ptask'[t].response.intent = "booking"
             /\ ~ptask'[t].response.booking_complete) =>
            /\ ptask'[t].pc # "done"
            /\ ptask[t].sid \in DOMAIN sessions'
            /\ heap'[ObjOf(heap', ptask[t].sid)].is_active]_vars
  /\ [](\A t \in DOMAIN ptask :
          (ptask[t].response.intent = "booking"
             /\ ~ptask[t].response.booking_complete
             /\ ptask[t].pc \in {"listen", "done"} /\ ~ptask[t].cancel) =>
            \E k \in 1..Len(enq) :
               enq[k].kind = "reply" /\ enq[k].sid = ptask[t].sid)

\* C21: a pipeline task whose recogniser has produced no final event has
\* processed no turn: its session has no user message, the dialogue engine
\* was not awaited (no response, no llm_processing metric), no exception of
\* a turn was caught and no reply chunk of its session was put on
\* audio_queue; when the recogniser's sequence ends after the end of the
\* audio stream, the task ends without an exception caught, closing its
\* session and leaving the histories and audio_queue as they were; and the
\* pipeline task of the handler, once the audio stream has ended, ends.
C21_NoFinalNoTurn ==
  /\ [](\A t \in DOMAIN ptask :
          ptask[t].nfinal = 0 =>
            LET o == ObjOf(heap, ptask[t].sid)
            IN  /\ CallerTurns(o) = {}
                /\ heap[o].latency_metrics = << >>
                /\ ptask[t].response = NoResponse
                /\ ptask[t].exc # "AttributeError"
                /\ \A k \in 1..Len(enq) :
                      ~(enq[k].kind = "reply" /\ enq[k].sid = ptask[t].sid))
  /\ [][\A t \in DOMAIN ptask :
          (ptask[t].pc = "listen" /\ ptask[t].eos /\ ~ptask[t].cancel
             /\ ptask'[t].pc = "done" /\ ptask'[t].exc = "none") =>
            /\ ptask'[t].fin
            /\ ptask[t].sid \notin DOMAIN sessions'
            /\ \A o \in Objects :
                  heap'[o].conversation_history = heap[o].conversation_history
            /\ audio_queue' = audio_queue
            /\ enq' = enq]_vars
  /\ (pipeline_task # None /\ ptask[pipeline_task].eos) ~>
        (pipeline_task # None /\ ptask[pipeline_task].pc = "done")

\* the recogniser gave an interim event only, the audio stream ended, and the
\* task ended by itself: not cancelled, no exception caught
C21_Witness ==
  /\ ninterim >= 1
  /\ \E t \in DOMAIN ptask :
        /\ ptask[t].pc = "done"
        /\ ptask[t].eos
        /\ ptask[t].nfinal = 0
        /\ ptask[t].exc = "none"
        /\ ~ptask[t].cancel
        /\ ptask[t].sid \notin DOMAIN sessions

\* C22: a failure of the synthesis of one segment costs the audio of that
\* segment only: the step in which the synthesis raises ends neither the
\* coroutine that awaits it nor the sender, and the session stays in the
\* registry and active. (The synthesis is awaited for the greeting only: no
\* turn gets as far, see C18.)
C22_SynthesisFailureSkipsSegment ==
  [][(hpc \in {"greeting", "greeted"} /\ cause' = "error") =>
       /\ hpc' # "done"
       /\ session_id \in DOMAIN sessions'
       /\ heap'[ObjOf(heap', session_id)].is_active
       /\ stask' = stask]_vars

\* C23: when the recogniser raises, the pipeline task keeps listening: it is
\* suspended in the recogniser again, and its session is in the registry
\* and active.
C23_TranscriptionErrorKeepsListening ==
  [][\A t \in DOMAIN ptask :
       (ptask[t].exc = "none" /\ ptask'[t].exc = "Exception") =>
         /\ ptask'[t].pc = "listen"
         /\ ptask[t].sid \in DOMAIN sessions'
         /\ heap'[ObjOf(heap', ptask[t].sid)].is_active]_vars

\* C24: an exception inside a pipeline task is caught in the task: the task
\* ends having run its finally block, its session leaves the registry, and
\* the step changes nothing else: every other entry of the registry and
\* every other session object, every other pipeline task, the sender tasks,
\* the handler and the queues are as before.
C24_FailureClosesOneSession ==
  [][\A t \in DOMAIN ptask :
       (ptask[t].exc = "none" /\ ptask'[t].exc # "none") =>
         /\ ptask'[t].pc = "done"
         /\ ptask'[t].fin
         /\ ptask[t].sid \notin DOMAIN sessions'
         /\ \A j \in (DOMAIN sessions) \ {ptask[t].sid} :
               j \in DOMAIN sessions' /\ sessions'[j] = sessions[j]
         /\ \A o \in Objects :
               heap[o].session_id # ptask[t].sid => heap'[o] = heap[o]
         /\ \A u \in (DOMAIN ptask) \ {t} : ptask'[u] = ptask[u]
         /\ stask' = stask
         /\ UNCHANGED <<hVars, audio_input_queue, audio_queue>>]_vars

\* the recogniser of one session raised and its task ended, while another
\* session of the registry is active and its pipeline task is listening
C24_Witness ==
  \E t \in DOMAIN ptask : \E u \in DOMAIN ptask :
    /\ ptask[t].exc # "none"
    /\ ptask[t].pc = "done"
    /\ ptask[u].pc = "listen"
    /\ ptask[u].sid \in DOMAIN sessions
    /\ heap[sessions[ptask[u].sid]].is_active
    /\ Len(heap[sessions[ptask[u].sid]].conversation_history) > 0

\* C25: the dispatch of the actions of a turn does not hold back its audio:
\* the step that receives a response with a completed booking records the
\* reply and leaves the pipeline task suspended in the synthesis, the
\* dispatch not awaited.
C25_DispatchDoesNotGateAudio ==
  [][\A t \in DOMAIN ptask :
       (ptask[t].pc = "llm" /\ ptask[t].response = NoResponse
          /\ ptask'[t].response.intent = "booking"
          /\ ptask'[t].response.booking_complete) =>
         /\ ptask'[t].pc = "tts"
         /\ LET h == heap'[ObjOf(heap', ptask[t].sid)].conversation_history
            IN  h[Len(h)].role = "assistant"]_vars

\* the last latency metric recorded for session object o is beyond the target
OverTarget(o) ==
  /\ heap[o].latency_metrics # << >>
  /\ heap[o].latency_metrics[Len(heap[o].latency_metrics)].duration_ms
        > max_latency_target_ms

\* C26: a turn that takes longer than the target raises nothing and closes
\* nothing: when its pipeline task was not cancelled, no exception was
\* caught in the task, and its session is in the registry and active.
C26_BreachOnlyLogged ==
  \A t \in DOMAIN ptask :
    (OverTarget(ObjOf(heap, ptask[t].sid)) /\ ~ptask[t].cancel) =>
      /\ ptask[t].exc = "none"
      /\ ptask[t].pc # "done"
      /\ ptask[t].sid \in DOMAIN sessions
      /\ heap[ObjOf(heap, ptask[t].sid)].is_active

\* C27: the history of a session only grows at its end: every step leaves
\* the messages of every session object, closed or not, as they were and in
\* their places.
C27_TurnsAppendOnly ==
  [][\A o \in Objects :
       LET h == heap[o].conversation_history
           g == heap'[o].conversation_history
       IN  /\ Len(g) >= Len(h)
           /\ SubSeq(g, 1, Len(h)) = h]_vars

\* a session with the greeting and a user message was closed and logged
C27_Witness ==
  \E o \in Objects :
    /\ Len(heap[o].conversation_history) >= 2
    /\ heap[o].conversation_history[1].role = "assistant"
    /\ heap[o].conversation_history[2].role = "user"
    /\ Count("log", o) = 1
    /\ ~heap[o].is_active

\* the audio messages of kind put on audio_queue so far for session sid
Enqueued(kind, sid) ==
  {k \in 1..Len(enq) : enq[k].kind = kind /\ enq[k].sid = sid}

\* C32: a start event makes the session and the sender task and records the
\* greeting as the first message of the session, an assistant message, while
\* no pipeline task for the session exists; the pipeline task of the session
\* is made only when the greeting audio of the session is on audio_queue
\* and before any reply audio of the session is; on audio_queue the
\* greeting audio of a session precedes its reply audio; and once a start
\* event was taken, a media or stop event is handled only with the greeting
\* audio of the current session enqueued and its pipeline task made.
C32_StartOrder ==
  /\ [][nstart' > nstart =>
          /\ session_id' \notin DOMAIN sessions
          /\ session_id' \in DOMAIN sessions'
          /\ Len(stask') = Len(stask) + 1
          /\ sender_task' = Len(stask')
          /\ heap'[sessions'[session_id']].conversation_history
                = << [role |-> "assistant", content |-> "greeting"] >>
          /\ Enqueued("greeting", session_id') = {}
          /\ ptask' = ptask
          /\ \A t \in DOMAIN ptask : ptask[t].sid # session_id']_vars
  /\ [][Len(ptask') > Len(ptask) =>
          /\ Len(ptask') = Len(ptask) + 1
          /\ pipeline_task' = Len(ptask')
          /\ ptask'[pipeline_task'].sid = session_id
          /\ session_id \in DOMAIN sessions
          /\ sender_task # None
          /\ heap[sessions[session_id]].conversation_history[1]
                = [role |-> "assistant", content |-> "greeting"]
          /\ Enqueued("greeting", session_id) # {}
          /\ Enqueued("reply", session_id) = {}
          /\ enq' = enq]_vars
  /\ [](\A j \in 1..Len(enq) : \A k \in 1..Len(enq) :
          (enq[j].sid = enq[k].sid /\ enq[j].kind = "greeting"
             /\ enq[k].kind = "reply") => j < k)
  /\ [][(nstart > 0 /\ (nmedia' > nmedia
                          \/ audio_input_queue'
                               = Append(audio_input_queue, None))) =>
          /\ hpc = "recv"
          /\ Enqueued("greeting", session_id) # {}
          /\ pipeline_task # None
          /\ ptask[pipeline_task].sid = session_id]_vars

\* after a start event the greeting audio was enqueued, the pipeline task
\* was made, and then a media event was handled
C32_Witness ==
  /\ nstart = 1
  /\ nmedia >= 1
  /\ dropped = {}
  /\ pipeline_task # None
  /\ Enqueued("greeting", session_id) # {}
  /\ heap[ObjOf(heap, session_id)].conversation_history[1].role = "assistant"

\* C35: once the handler of the connection has ended, eventually no session
\* of the connection is in the registry and every pipeline task and every
\* sender task made on the connection has ended.
C35_NoOrphans ==
  (hpc = "done") ~>
     /\ DOMAIN sessions = {}
     /\ \A t \in DOMAIN ptask : Done(ptask, t)
     /\ \A s \in DOMAIN stask : Done(stask, s)

\* C33: when a turn in which the dialogue engine has answered is over, the
\* latency metrics of the session are, for each such turn, llm_processing,
\* tts_generation and end_to_end, and the first two add up to the third.
C33_DurationsAddUp ==
  \A t \in DOMAIN ptask :
    (ptask[t].response # NoResponse /\ ~ptask[t].cancel
       /\ ptask[t].pc \in {"listen", "done"}) =>
      LET m == heap[ObjOf(heap, ptask[t].sid)].latency_metrics
      IN  /\ Len(m) > 0
          /\ Len(m) % 3 = 0
          /\ \A j \in 1..(Len(m) \div 3) :
                /\ m[3 * j - 2].metric = "llm_processing"
                /\ m[3 * j - 1].metric = "tts_generation"
                /\ m[3 * j].metric = "end_to_end"
                /\ m[3 * j - 2].duration_ms + m[3 * j - 1].duration_ms
                      = m[3 * j].duration_ms

\* C34: while a pipeline task awaits the dialogue engine, the list given to
\* the engine is, after the system message, the history of the session
\* message by message, and the transcript of the turn is in it exactly once,
\* as its last message.
C34_UtteranceOnceLast ==
  \A t \in DOMAIN ptask :
    ptask[t].pc = "llm" =>
      LET m == ptask[t].messages
          n == Len(m)
          h == heap[ObjOf(heap, ptask[t].sid)].conversation_history
      IN  /\ n = Len(h) + 1
          /\ \A k \in 1..Len(h) :
                k + 1 <= n =>
                  /\ m[k + 1].role = h[k].role
                  /\ m[k + 1].content = h[k].content
          /\ m[n].role = "user"
          /\ m[n].content = ptask[t].transcript
          /\ Cardinality({k \in 1..n : /\ m[k].role = "user"
                                       /\ m[k].content = ptask[t].transcript})
                = 1

\* the dispatch of the actions of response r fails: one of the two
\* "except Exception" branches of _handle_actions catches an exception
DispatchFails(r) ==
  _handle_actions([session_id |-> 1, caller_phone |-> None], r).caught # "none"

\* C37: a failure of the dispatch of the actions of a turn stays in
\* _handle_actions: the step that receives a response whose dispatch fails
\* catches no exception in the pipeline task, leaves the task running and
\* the session in the registry and active, with the assistant message the
\* last of its history; and once the turn is over a reply chunk of the
\* session has been put on audio_queue.
C37_DispatchFailureContained ==
  /\ [][\A t \in DOMAIN ptask :
          (ptask[t].pc = "llm" /\ ptask[t].response = NoResponse
             /\ ptask'[t].response # NoResponse
             /\ DispatchFails(ptask'[t].response)) =>
            /\ ptask'[t].exc = "none"
            /\ ptask'[t].pc # "done"
            /\ ptask[t].sid \in DOMAIN sessions'
            /\ LET o == ObjOf(heap', ptask[t].sid)
                   h == heap'[o].conversation_history
               IN  /\ heap'[o].is_active
                   /\ h[Len(h)].role = "assistant"]_vars
  /\ [](\A t \in DOMAIN ptask :
          (ptask[t].response # NoResponse /\ DispatchFails(ptask[t].response)
             /\ ptask[t].pc \in {"listen", "done"} /\ ~ptask[t].cancel) =>
            Enqueued("reply", ptask[t].sid) # {})

(***************************************************************************)
(* Properties of the registry (SpecReg)                                    *)
(***************************************************************************)
\* C2: close_session on an id that is not in the registry raises nothing,
\* leaves every entry and every session unchanged and logs nothing.
C2_CloseAbsentNoop ==
  [][(call'.n = call.n + 1 /\ call'.op = "close"
        /\ call'.id \notin DOMAIN sessions) =>
       /\ sessions' = sessions
       /\ heap' = heap
       /\ trace' = trace
       /\ err' = "none"]_vars

\* the last call closed an id that an earlier call had closed, with other
\* sessions in the registry
C2_Witness ==
  /\ call.op = "close"
  /\ ~call.present
  /\ \E k \in 1..Len(trace) :
        trace[k].ev = "del" /\ heap[trace[k].o].session_id = call.id
  /\ DOMAIN sessions # {}

\* C3: create_session on an id that is in the registry fails with
\* DuplicateSessionError and leaves the session of that id in place.
C3_DuplicateCreateRejected ==
  [][(call'.n = call.n + 1 /\ call'.op = "create"
        /\ call'.id \in DOMAIN sessions) =>
       /\ err' = "DuplicateSessionError"
       /\ sessions' = sessions
       /\ heap'[sessions[call'.id]] = heap[sessions[call'.id]]]_vars

\* C4: the registry holds exactly the sessions created and not closed since,
\* each retrievable and active; and closing one session leaves every other
\* entry, and the state of its session, as it was.
C4_IndependentSessions ==
  /\ [](/\ Cardinality(DOMAIN sessions) = Cardinality(open)
        /\ \A id \in open :
              get_session(id) # None /\ heap[get_session(id)].is_active)
  /\ [][(call'.n = call.n + 1 /\ call'.op = "close") =>
          \A j \in (DOMAIN sessions) \ {call'.id} :
             /\ j \in DOMAIN sessions'
             /\ sessions'[j] = sessions[j]
             /\ heap'[sessions[j]] = heap[sessions[j]]]_vars

\* a session was closed while two others, one of them with a turn, stayed
C4_Witness ==
  /\ call.op = "close"
  /\ call.present
  /\ Cardinality(DOMAIN sessions) >= 2
  /\ \E j \in DOMAIN sessions :
        Len(heap[sessions[j]].conversation_history) > 0

\* C5: from create_session(id) to close_session(id), get_session(id) is the
\* object that create_session returned, and it is active; after
\* close_session(id), get_session(id) finds nothing and that object is not
\* active.
C5_GetReturnsCreated ==
  \A id \in Ids :
    lastCreated[id] # None =>
      IF id \in open
      THEN /\ get_session(id) = lastCreated[id]
           /\ heap[lastCreated[id]].is_active
      ELSE /\ get_session(id) = None
           /\ ~heap[lastCreated[id]].is_active

\* get_session on an id that was created and closed
C5_Witness ==
  /\ call.op = "get"
  /\ lastCreated[call.id] # None
  /\ call.id \notin open
  /\ call.ret = None

(***************************************************************************)
(* Properties of AudioBuffer (SpecBuf)                                     *)
(***************************************************************************)
\* C6: after every add_chunk, whatever the lengths of the chunks, the buffer
\* holds at most max_bytes bytes, that is duration_ms() <= max_duration_ms.
C6_BufferBounded ==
  /\ Len(buffer) <= max_bytes(max_duration_ms)
  /\ DurationAtMost(buffer, max_duration_ms)

\* a single chunk longer than the capacity was added to the empty buffer
C6_Witness ==
  /\ nops = 1
  /\ Len(fed) > max_bytes(max_duration_ms)
  /\ Len(buffer) = max_bytes(max_duration_ms)

\* C7: get_audio() is the last min(total, max_bytes) bytes of the chunks added
\* since the last clear(), in the order of addition.
C7_KeepsNewest ==
  LET mb == max_bytes(max_duration_ms)
      n  == IF Len(fed) < mb THEN Len(fed) ELSE mb
  IN  get_audio = SubSeq(fed, Len(fed) - n + 1, Len(fed))

\* several chunks overflowed the buffer: the oldest bytes are gone
C7_Witness ==
  /\ nops >= 3
  /\ Len(fed) > max_bytes(max_duration_ms)
  /\ Len(buffer) = max_bytes(max_duration_ms)
  /\ buffer[1] # fed[1]
  /\ buffer[Len(buffer)] = fed[Len(fed)]

(***************************************************************************)
(* Properties of _handle_actions (SpecActions)                             *)
(***************************************************************************)
\* the calls of the names in N that the last call of _handle_actions made
ActCalls(N) == {k \in 1..Len(act.calls) : act.calls[k] \in N}

\* C36: a call of _handle_actions creates a booking (and confirms it) only
\* for a response with intent booking and booking_complete, sends an alert
\* only for a response with intent urgent and needs_escalation, never does
\* both, creates at most one booking and sends at most one alert, and calls
\* nothing for any other response, the fallback response included.
C36_AtMostOneAction ==
  act.op # "none" =>
    LET r == act.response
        Booking == ActCalls({"create_booking_from_conversation",
                             "send_booking_confirmation"})
        Alert == ActCalls({"send_urgent_alert"})
    IN  /\ Booking # {} => (r.intent = "booking" /\ r.booking_complete)
        /\ Alert # {} => (r.intent = "urgent" /\ r.needs_escalation)
        /\ Booking = {} \/ Alert = {}
        /\ Cardinality(ActCalls({"create_booking_from_conversation"})) <= 1
        /\ Cardinality(Alert) <= 1
        /\ Booking \cup Alert = DOMAIN act.calls
        /\ (~(r.intent = "booking" /\ r.booking_complete)
              /\ ~(r.intent = "urgent" /\ r.needs_escalation)) =>
             act.calls = << >>

\* _handle_actions was called with a completed booking that also asks for
\* an escalation, and it called the booking tool and nothing else
C36_Witness ==
  /\ act.op = "_handle_actions"
  /\ act.response.intent = "booking"
  /\ act.response.booking_complete
  /\ act.response.needs_escalation
  /\ act.calls = << "create_booking_from_conversation" >>

(***************************************************************************)
(* Properties of AudioCodec (SpecCodec)                                    *)
(***************************************************************************)
\* the call encoded the PCM that decode_mulaw_base64 made of one mu-law byte
RoundTrip == codec.op = "encode" /\ codec.of # << >>

\* C28: for every byte b in 0..255, encoding the PCM sample obtained by
\* decoding b gives b again, the bytes 0x7F and 0xFF included.
C28_RoundTripEveryByte ==
  RoundTrip => (codec.err = "none" /\ codec.out = codec.of)

\* C28 as amended: for every byte b in 0..255 other than 0x7F, encoding the
\* PCM sample obtained by decoding b gives b again; 0x7F decodes to the
\* sample 0, as 0xFF does, and the sample 0 is encoded as 0xFF.
C28_RoundTripButNegativeZero ==
  RoundTrip =>
    /\ codec.err = "none"
    /\ codec.out = IF codec.of = b64encode(<< 127 >>)
                   THEN b64encode(<< 255 >>)
                   ELSE codec.of
    /\ codec.of \in {b64encode(<< 127 >>), b64encode(<< 255 >>)} =>
          codec.arg = << 0, 0 >>

\* the byte 0x7F was decoded to the sample 0 and encoded as 0xFF
C28_Witness ==
  /\ RoundTrip
  /\ codec.of = b64encode(<< 127 >>)
  /\ codec.arg = << 0, 0 >>
  /\ codec.out = b64encode(<< 255 >>)

\* C29: resample_audio with equal rates returns its input, byte for byte,
\* and raises nothing, whatever the length and the sample width.
C29_ResampleSameRateIdentity ==
  (codec.op = "resample" /\ codec.from_rate = codec.to_rate) =>
    (codec.err = "none" /\ codec.out = codec.arg)

\* a buffer of three bytes was resampled at width 2 with equal rates
C29_Witness ==
  /\ codec.op = "resample"
  /\ codec.from_rate = codec.to_rate
  /\ codec.sample_width = 2
  /\ Len(codec.arg) = 3
  /\ codec.out = codec.arg

\* C30: encode_pcm_to_mulaw_base64 on a buffer whose length is not a
\* multiple of 2, and resample_audio with different rates on a buffer whose
\* length is not a multiple of the sample width, raise the error of the
\* format and return nothing.
C30_PartialSampleRejected ==
  /\ (codec.op = "encode" /\ Len(codec.arg) % 2 # 0) =>
        (codec.err = "audioop.error" /\ codec.out = << >>)
  /\ (codec.op = "resample" /\ codec.from_rate # codec.to_rate
         /\ Len(codec.arg) % codec.sample_width # 0) =>
        (codec.err = "audioop.error" /\ codec.out = << >>)

\* a buffer of one whole sample and one more byte was given to encode
C30_Witness ==
  /\ codec.op = "encode"
  /\ Len(codec.arg) = 3
  /\ codec.err = "audioop.error"

(***************************************************************************)
(* Properties of ConversationOrchestrator (SpecOrch)                       *)
(***************************************************************************)
\* the calls in which process_text_turn has gone through for session s: the
\* dialogue engine has answered and the session was updated
DoneTurns(s) ==
  {k \in DOMAIN coro : coro[k].sid = s /\ coro[k].response # NoResponse}

\* the places of the user entry of call k in history h
PlacesOf(h, k) ==
  {p \in 1..Len(h) : h[p].role = "user" /\ h[p].content = coro[k].user_text}

\* C31: the step in which process_text_turn goes through appends to the
\* history of its session the user entry of the turn and then the assistant
\* entry with the reply, and leaves the histories of the other sessions as
\* they were; so the history of a session has two entries for each turn
\* gone through, user and assistant in alternation, with the user entry of
\* each turn in it once, and the turns of one caller, who makes them one
\* after the other, in the order of the calls.
C31_TurnAppendsPair ==
  /\ [][\A k \in DOMAIN coro :
          (coro[k].pc = "llm" /\ coro'[k].pc # "llm") =>
            LET s == coro[k].sid
                h == orch[s].conversation_history
                g == orch'[s].conversation_history
            IN  /\ Len(g) = Len(h) + 2
                /\ SubSeq(g, 1, Len(h)) = h
                /\ g[Len(h) + 1].role = "user"
                /\ g[Len(h) + 1].content = coro[k].user_text
                /\ g[Len(h) + 2].role = "assistant"
                /\ g[Len(h) + 2].content = coro'[k].response.message
                /\ \A j \in (DOMAIN orch) \ {s} :
                      orch'[j].conversation_history
                        = orch[j].conversation_history]_vars
  /\ [](\A s \in DOMAIN orch :
          LET h == orch[s].conversation_history
          IN  /\ Len(h) = 2 * Cardinality(DoneTurns(s))
              /\ \A p \in 1..Len(h) :
                    h[p].role = IF p % 2 = 1 THEN "user" ELSE "assistant"
              /\ \A k \in DoneTurns(s) : Cardinality(PlacesOf(h, k)) = 1
              /\ \A j \in DoneTurns(s) : \A k \in DoneTurns(s) :
                    (j < k /\ coro[j].by = coro[k].by) =>
                      \A p \in PlacesOf(h, j) : \A q \in PlacesOf(h, k) :
                         p < q)

\* two turns have gone through on the first session, whose history has the
\* four entries, while the second session has none
C31_Witness ==
  /\ Len(orch) = 2
  /\ Cardinality(DoneTurns(1)) = 2
  /\ Len(orch[1].conversation_history) = 4
  /\ orch[2].conversation_history = << >>

\* the calls of process_audio_turn made by run_conversation
RunCalls == {k \in DOMAIN coro : coro[k].by = "run"}

\* C38: completed of a session is true after a step exactly when it was
\* true before or the step is the one in which a turn of the session goes
\* through with booking_complete or needs_escalation in its response (a
\* new session starts with false); run_conversation gives its files to
\* process_audio_turn in order, one call for each file taken, all for its
\* own session, and starts a file only when the call before has returned
\* and the session is not completed.
C38_CompletedStopsRun ==
  /\ [][\A s \in DOMAIN orch' :
          orch'[s].completed <=>
            /\ s \in DOMAIN orch
            /\ \/ orch[s].completed
               \/ \E k \in DOMAIN coro :
                     /\ coro[k].sid = s
                     /\ coro[k].pc = "llm"
                     /\ coro'[k].pc # "llm"
                     /\ \/ coro'[k].response.booking_complete
                        \/ coro'[k].response.needs_escalation]_vars
  /\ [](/\ Cardinality(RunCalls) = conv.i
        /\ conv.i <= conv.n
        /\ \A k \in RunCalls : coro[k].sid = conv.sid
        /\ {coro[k].file : k \in RunCalls} = 1..conv.i
        /\ \A j \in RunCalls : \A k \in RunCalls :
              j < k => coro[j].file < coro[k].file)
  /\ [][(Len(coro') > Len(coro) /\ coro'[Len(coro')].by = "run") =>
          /\ conv.pc \in {"idle", "turn"}
          /\ conv.pc = "turn" => coro[conv.cur].pc = "done"
          /\ ~orch'[conv'.sid].completed]_vars

\* run_conversation was given more files than it took: it ended after the
\* turn that completed the session
C38_Witness ==
  /\ conv.pc = "done"
  /\ conv.i >= 1
  /\ conv.i < conv.n
  /\ orch[conv.sid].completed
  /\ coro[conv.cur].response # NoResponse

\* C39: a call of process_text_turn or process_audio_turn with a session id
\* that is not in the session map ends with ValueError in the step in which
\* it is made, having called no external engine, and the step leaves the
\* session map and every session as they were; no call for such an id ever
\* has called an engine or got a response.
C39_UnknownSessionRejected ==
  /\ [][\A k \in (DOMAIN coro') \ (DOMAIN coro) :
          coro'[k].sid \notin DOMAIN orch' =>
            /\ coro'[k].pc = "raised"
            /\ coro'[k].raised = "ValueError"
            /\ coro'[k].ext = << >>
            /\ orch' = orch]_vars
  /\ [](\A k \in DOMAIN coro :
          coro[k].sid \notin DOMAIN orch =>
            /\ coro[k].pc = "raised"
            /\ coro[k].raised = "ValueError"
            /\ coro[k].ext = << >>
            /\ coro[k].response = NoResponse)

\* process_audio_turn was called with an unknown id and raised, with a
\* session in the map that has a turn in its history
C39_Witness ==
  /\ \E k \in DOMAIN coro :
        /\ coro[k].op = "process_audio_turn"
        /\ coro[k].sid = UnknownId
        /\ coro[k].raised = "ValueError"
  /\ \E s \in DOMAIN orch : orch[s].conversation_history # << >>

====
